---------------------------- MODULE Spec2Model ----------------------------
(***************************************************************************)
(* GripLab data-normalisation pipeline: DataImporter, CmdChannelGenerator, *)
(* UnitSystemConverter, ConventionConverter, DataManager, DataController.  *)
(*                                                                         *)
(* Representation                                                          *)
(*  - A float64 sample is a fixed-point integer counting 1/Scale units.    *)
(*  - A string built by an f-string "{base} ({n})" is the sequence         *)
(*    Append(base, n); a plain name "x" is <<"x">>.                        *)
(*  - A Python dict is a sequence of [k, v] items in insertion order.      *)
(*  - Dataset objects and ndarray objects live on two heaps (objs, arrs),  *)
(*    so that aliasing, in-place writes and object identity are visible.   *)
(*  - None is the reference 0.                                             *)
(***************************************************************************)
EXTENDS Integers, Sequences, FiniteSets, TLC

VARIABLES
    objs,            \* heap of Dataset objects: allocated object id -> Dataset record
    arrs,            \* heap of ndarray objects: allocated array id -> array value
    datasets,        \* DataManager._datasets (ordered dict name -> ref)
    import_counter,  \* DataController.import_counter
    history,         \* the calls made so far (the last one in the controller / manager specs)
    conversion_cache \* UnitSystemConverter._CONVERSION_CACHE

vars == <<objs, arrs, datasets, import_counter, history, conversion_cache>>

-----------------------------------------------------------------------------
(* Bounds of the model *)

MaxDatasets == 2     \* datasets a DataManager holds
MaxBatch == 2        \* file paths of one import_data call
MaxCalls == 2        \* conversions chained on one imported dataset
MaxImports == 2      \* import_counter is capped here
MaxStored == 3       \* names a directly driven DataManager holds
MaxNames == 3        \* names of one get_channels call
MaxValueCalls == 3   \* convert_value calls made on one value

(* Resolution of a modelled float64 sample: 1/Scale *)
Scale == 1000

None == 0

-----------------------------------------------------------------------------
(* Sequence helpers *)

Range(s) == {s[i] : i \in 1..Len(s)}

Contains(s, x) == \E i \in 1..Len(s) : s[i] = x

(* list.index(x): the first position of x; 0 stands for ValueError *)
Index(s, x) == IF Contains(s, x) THEN CHOOSE i \in 1..Len(s) : s[i] = x /\ \A j \in 1..(i - 1) : s[j] # x ELSE 0

Count(s, x) == Cardinality({i \in 1..Len(s) : s[i] = x})

NoDuplicates(s) == \A i, j \in 1..Len(s) : s[i] = s[j] => i = j

(* f"{base} ({counter})" *)
Suffixed(base, counter) == Append(base, counter)

-----------------------------------------------------------------------------
(* Fixed-point arithmetic *)

Abs(x) == IF x < 0 THEN -x ELSE x

Sgn(x) == IF x < 0 THEN -1 ELSE 1

(* nearest integer to x / d for x >= 0, d > 0 *)
RoundDivNat(x, d) == (2 * x + d) \div (2 * d)

(* v * n / d rounded to the nearest grid point, without overflowing 32 bits *)
MulDivNat(v, n, d) ==
    LET a == v \div Scale
        b == v % Scale
        q1 == (a * n) \div d
        r1 == (a * n) % d
    IN  q1 * Scale + RoundDivNat(r1 * Scale + b * n, d)

MulDiv(v, n, d) == Sgn(v) * MulDivNat(Abs(v), n, d)

(* rounding toward zero *)
NpTrunc(v) == Sgn(v) * (Abs(v) \div Scale) * Scale

(* rounding toward minus infinity *)
NpFloor(v) == IF v >= 0 THEN (v \div Scale) * Scale
                        ELSE -(((-v + Scale - 1) \div Scale) * Scale)

(* np.round: to the nearest integer, halves to the even one *)
NpRound(v) ==
    LET a == Abs(v) \div Scale
        b == Abs(v) % Scale
        up == \/ 2 * b > Scale
              \/ (2 * b = Scale /\ a % 2 = 1)
    IN  Sgn(v) * Scale * (IF up THEN a + 1 ELSE a)

(* a cast that rounds toward minus infinity *)
AsIntFloor(v) == IF v >= 0 THEN v \div Scale ELSE -((-v + Scale - 1) \div Scale)

(* ndarray.astype(np.int64): truncation toward zero *)
AsInt(v) == Sgn(v) * (Abs(v) \div Scale)

-----------------------------------------------------------------------------
(* ndarray values: [ndim, ncols, rows].  ndim = 2: rows is the list of rows, *)
(* each of ncols samples (ncols is kept for an array with no rows).          *)
(* ndim = 1: rows is <<the vector>>.  ndim = 0: rows is <<<<the scalar>>>>.  *)

Matrix(ncols, rows) == [ndim |-> 2, ncols |-> ncols, rows |-> rows]

Vector(vals) == [ndim |-> 1, ncols |-> 0, rows |-> <<vals>>]

Scalar0d(v) == [ndim |-> 0, ncols |-> 0, rows |-> << <<v>> >>]

(* The outcome of an array computation that raised *)
RaisedArray == [ndim |-> -1, ncols |-> 0, rows |-> <<>>]

NRows(a) == Len(a.rows)

(* data[:, j] of a 2-D array *)
Column(a, j) == [i \in 1..NRows(a) |-> a.rows[i][j]]

(* np.column_stack([a] + cols) for a 2-D a and 1-D columns of the same length *)
ColumnStack(a, cols) ==
    Matrix(a.ncols + Len(cols),
           [i \in 1..NRows(a) |-> a.rows[i] \o [k \in 1..Len(cols) |-> cols[k][i]]])

(* every sample of column j multiplied by m *)
ScaleColumn(a, j, m) ==
    [a EXCEPT !.rows = [i \in 1..NRows(a) |-> [a.rows[i] EXCEPT ![j] = @ * m]]]

(* data[mask, :] *)
RECURSIVE SelectRows(_, _)
SelectRows(rows, keep) ==
    IF rows = <<>> THEN <<>>
    ELSE (IF keep[1] THEN <<Head(rows)>> ELSE <<>>)
         \o SelectRows(Tail(rows), Tail(keep))

-----------------------------------------------------------------------------
(* converters/units.py: the tables *)

CHANNEL_TO_TYPE ==
    [RL |-> "length", RE |-> "length",
     FX |-> "force", FY |-> "force", FZ |-> "force", CmdFZ |-> "force",
     MX |-> "torque", MY |-> "torque", MZ |-> "torque",
     P |-> "pressure", CmdP |-> "pressure",
     SA |-> "angle", IA |-> "angle", CmdSA |-> "angle", CmdIA |-> "angle",
     V |-> "speed", CmdV |-> "speed",
     N |-> "rotational_speed",
     RST |-> "temperature", TSTI |-> "temperature", TSTC |-> "temperature",
     TSTO |-> "temperature", AmbTmp |-> "temperature",
     ET |-> "time"]

Systems == <<"SI", "Metric", "USCS">>

(* One UNIT_DEFS entry: the unit string, the to-SI factor as the fraction   *)
(* num/den, and the offset (a scalar, or the pair of the USCS temperature), *)
(* offsets in 1/Scale units.  pi is 355/113.                                *)
UnitDef(unit, num, den, pair, off1, off2) ==
    [unit |-> unit, num |-> num, den |-> den, pair |-> pair, off1 |-> off1, off2 |-> off2]

UNIT_DEFS ==
    [length |-> [SI |-> UnitDef("m", 1, 1, FALSE, 0, 0),
                 Metric |-> UnitDef("cm", 1, 100, FALSE, 0, 0),
                 USCS |-> UnitDef("in", 127, 5000, FALSE, 0, 0)],
     force |-> [SI |-> UnitDef("N", 1, 1, FALSE, 0, 0),
                Metric |-> UnitDef("N", 1, 1, FALSE, 0, 0),
                USCS |-> UnitDef("lb", 222411, 50000, FALSE, 0, 0)],
     torque |-> [SI |-> UnitDef("Nm", 1, 1, FALSE, 0, 0),
                 Metric |-> UnitDef("Nm", 1, 1, FALSE, 0, 0),
                 USCS |-> UnitDef("ft-lb", 67791, 50000, FALSE, 0, 0)],
     pressure |-> [SI |-> UnitDef("Pa", 1, 1, FALSE, 0, 0),
                   Metric |-> UnitDef("kPa", 1000, 1, FALSE, 0, 0),
                   USCS |-> UnitDef("psi", 172369, 25, FALSE, 0, 0)],
     angle |-> [SI |-> UnitDef("rad", 1, 1, FALSE, 0, 0),
                Metric |-> UnitDef("deg", 71, 4068, FALSE, 0, 0),
                USCS |-> UnitDef("deg", 71, 4068, FALSE, 0, 0)],
     speed |-> [SI |-> UnitDef("m/s", 1, 1, FALSE, 0, 0),
                Metric |-> UnitDef("kph", 5, 18, FALSE, 0, 0),
                USCS |-> UnitDef("mph", 1397, 3125, FALSE, 0, 0)],
     rotational_speed |-> [SI |-> UnitDef("rad/s", 1, 1, FALSE, 0, 0),
                           Metric |-> UnitDef("rpm", 71, 678, FALSE, 0, 0),
                           USCS |-> UnitDef("rpm", 71, 678, FALSE, 0, 0)],
     temperature |-> [SI |-> UnitDef("deg k", 1, 1, FALSE, 0, 0),
                      Metric |-> UnitDef("deg c", 1, 1, FALSE, 273150, 0),
                      USCS |-> UnitDef("deg F", 5, 9, TRUE, 255370, 459670)],
     time |-> [SI |-> UnitDef("sec", 1, 1, FALSE, 0, 0),
               Metric |-> UnitDef("sec", 1, 1, FALSE, 0, 0),
               USCS |-> UnitDef("sec", 1, 1, FALSE, 0, 0)]]

(* an entry that takes the first offset of a pair in both directions *)
CacheEntryFirstOffset(unit_type, from_sys, to_sys) ==
    LET from_def == UNIT_DEFS[unit_type][from_sys]
        to_def == UNIT_DEFS[unit_type][to_sys]
    IN  [to_si_num |-> from_def.num, to_si_den |-> from_def.den,
         from_si_num |-> to_def.num, from_si_den |-> to_def.den,
         from_offset |-> from_def.off1,
         to_offset |-> to_def.off1]

(* One _CONVERSION_CACHE[from_sys][to_sys][unit_type] entry of two different *)
(* systems: (to_si, from_si, to_offset, from_offset)                         *)
CacheEntry(unit_type, from_sys, to_sys) ==
    LET from_def == UNIT_DEFS[unit_type][from_sys]
        to_def == UNIT_DEFS[unit_type][to_sys]
    IN  [to_si_num |-> from_def.num, to_si_den |-> from_def.den,
         from_si_num |-> to_def.num, from_si_den |-> to_def.den,
         from_offset |-> from_def.off1,
         to_offset |-> IF from_def.pair THEN to_def.off1
                       ELSE IF to_def.pair THEN to_def.off2
                       ELSE to_def.off1]

(* the entry of a system with itself: (1.0, 0, 0) *)
SameSystemEntry == [factor_num |-> 1, factor_den |-> 1, to_offset |-> 0, from_offset |-> 0]

(* the dict _initialize_cache fills: [from_sys][to_sys][unit_type] *)
FilledCache ==
    [from_sys \in Range(Systems) |->
        [to_sys \in Range(Systems) |->
            [unit_type \in DOMAIN UNIT_DEFS |->
                IF from_sys = to_sys THEN SameSystemEntry
                ELSE CacheEntry(unit_type, from_sys, to_sys)]]]

(* _initialize_cache: a cache that holds anything is left as it is *)
_initialize_cache(cache) == IF DOMAIN cache # {} THEN cache ELSE FilledCache

(* the cache after a convert_dataset call: the quick return for equal       *)
(* systems comes before the initialisation                                  *)
CacheAfterConvert(cache, from_system, to_system) ==
    IF from_system = to_system THEN cache ELSE _initialize_cache(cache)

(* (value * to_si + from_offset) / from_si - to_offset on one cache entry *)
ValueWithOffsets(value, e) ==
    MulDiv(MulDiv(value, e.to_si_num, e.to_si_den) + e.from_offset, e.from_si_den, e.from_si_num)
    - e.to_offset

(* the try block of convert_value: a KeyError returns the value *)
LookupAndConvert(cache, value, unit_type, from_system, to_system) ==
    IF from_system \notin DOMAIN cache THEN value
    ELSE IF to_system \notin DOMAIN cache[from_system] THEN value
    ELSE IF unit_type \notin DOMAIN cache[from_system][to_system] THEN value
    ELSE ValueWithOffsets(value, cache[from_system][to_system][unit_type])

(* convert_value: [cache, ret], the cache as the call leaves it *)
convert_value(cache, value, unit_type, from_system, to_system) ==
    IF from_system = to_system THEN [cache |-> cache, ret |-> value]
    ELSE [cache |-> _initialize_cache(cache),
          ret |-> LookupAndConvert(_initialize_cache(cache), value, unit_type,
                                   from_system, to_system)]

(* a type for the channels of CHANNEL_TO_TYPE only *)
map_known_channels_to_types(channels) ==
    [i \in 1..Len(SelectSeq(channels, LAMBDA c : c \in DOMAIN CHANNEL_TO_TYPE)) |->
        CHANNEL_TO_TYPE[SelectSeq(channels, LAMBDA c : c \in DOMAIN CHANNEL_TO_TYPE)[i]]]

(* map_channels_to_types *)
map_channels_to_types(channels) ==
    [i \in 1..Len(channels) |->
        IF channels[i] \in DOMAIN CHANNEL_TO_TYPE THEN CHANNEL_TO_TYPE[channels[i]] ELSE "-"]

-----------------------------------------------------------------------------
(* converters/conventions.py *)

SUPPORTED_CONVENTIONS == <<"SAE", "Adapted SAE", "ISO", "Adapted ISO">>

Signs(sae, asae, iso, aiso) ==
    [c \in Range(SUPPORTED_CONVENTIONS) |->
        CASE c = "SAE" -> sae [] c = "Adapted SAE" -> asae [] c = "ISO" -> iso [] c = "Adapted ISO" -> aiso]

SIGN_DEFINITIONS ==
    [IA |-> Signs(1, 1, 1, -1), SA |-> Signs(1, -1, -1, 1),
     SR |-> Signs(1, 1, 1, 1), SL |-> Signs(1, 1, 1, 1),
     FX |-> Signs(1, 1, 1, 1), FY |-> Signs(1, 1, -1, -1), FZ |-> Signs(1, -1, -1, -1),
     MX |-> Signs(1, 1, 1, 1), MY |-> Signs(1, 1, -1, -1), MZ |-> Signs(1, 1, -1, -1),
     CmdIA |-> Signs(1, 1, 1, -1), CmdSA |-> Signs(1, -1, -1, 1), CmdFZ |-> Signs(1, -1, -1, -1)]

validate_convention(convention) == Contains(SUPPORTED_CONVENTIONS, convention)

(* dict.get(key, 1) on one channel's table *)
SignOf(channel_def, convention) ==
    IF convention \in DOMAIN channel_def THEN channel_def[convention] ELSE 1

(* Python's floor division of two signs *)
FloorDivSign(to_sign, from_sign) == IF to_sign = from_sign THEN 1 ELSE -1

(* the source convention's sign alone *)
get_source_sign(channel, from_convention, to_convention) ==
    IF channel \notin DOMAIN SIGN_DEFINITIONS THEN 1
    ELSE SignOf(SIGN_DEFINITIONS[channel], from_convention)

(* the target convention's sign alone *)
get_target_sign(channel, from_convention, to_convention) ==
    IF channel \notin DOMAIN SIGN_DEFINITIONS THEN 1
    ELSE SignOf(SIGN_DEFINITIONS[channel], to_convention)

get_multiplier(channel, from_convention, to_convention) ==
    IF from_convention = to_convention THEN 1
    ELSE IF channel \notin DOMAIN SIGN_DEFINITIONS THEN 1
    ELSE LET channel_def == SIGN_DEFINITIONS[channel]
             from_sign == SignOf(channel_def, from_convention)
             to_sign == SignOf(channel_def, to_convention)
         IN  IF from_sign # 0 THEN FloorDivSign(to_sign, from_sign) ELSE 1

(* The loop shared by convert_dataset_convention and                        *)
(* convert_channel_convention: result[:, idx] *= multiplier for every       *)
(* channel of the table.  RaisedArray stands for the IndexError of a        *)
(* channel whose column does not exist.                                     *)
RECURSIVE SignLoop(_, _, _, _, _)
SignLoop(channels, a, idx, current, target) ==
    IF idx > Len(channels) THEN a
    ELSE LET multiplier == get_multiplier(channels[idx], current, target)
         IN  IF channels[idx] \in DOMAIN SIGN_DEFINITIONS /\ multiplier # 1
             THEN IF a.ndim # 2 \/ idx > a.ncols THEN RaisedArray
                  ELSE SignLoop(channels, ScaleColumn(a, idx, multiplier), idx + 1, current, target)
             ELSE SignLoop(channels, a, idx + 1, current, target)

(* the except branch of the two array conversions: the input is returned *)
SignedOrInput(data, result) ==
    IF result = RaisedArray THEN [same |-> TRUE, data |-> data]
    ELSE [same |-> FALSE, data |-> result]

(* convert_channel_convention on array values: [same, data]; same = TRUE    *)
(* when the input array itself is returned (no copy)                        *)
convert_channel_convention(channels, data, current_convention, target_convention) ==
    IF current_convention = target_convention THEN [same |-> TRUE, data |-> data]
    ELSE IF ~validate_convention(target_convention) THEN [same |-> TRUE, data |-> data]
    ELSE IF ~validate_convention(current_convention) THEN [same |-> TRUE, data |-> data]
    ELSE SignedOrInput(data, SignLoop(channels, data, 1, current_convention, target_convention))

-----------------------------------------------------------------------------
(* core/processing.py and converters/command.py *)

(* low_pass_filter on a signal of at most 9 samples: scipy's filtfilt pads  *)
(* 3 * max(len(a), len(b)) = 9 samples for the 2nd-order filter and raises  *)
(* ValueError for a signal no longer than that; apply_butterworth_filter    *)
(* catches it and returns its input.  Every signal of this model is that    *)
(* short, so the filter's arithmetic is never reached.            *)
low_pass_filter(values) == values

CmdSources == <<"V", "P", "FZ", "IA", "SA">>

CmdName(chan) ==
    CASE chan = "V" -> "CmdV" [] chan = "P" -> "CmdP" [] chan = "FZ" -> "CmdFZ"
      [] chan = "IA" -> "CmdIA" [] chan = "SA" -> "CmdSA"

(* CMD_TARGETS, in whole units *)
CMD_TARGETS ==
    [V |-> [USCS |-> <<0, 2, 15, 25, 45>>, Metric |-> <<0, 3, 24, 40, 72>>],
     P |-> [USCS |-> <<0, 8, 10, 12, 14>>, Metric |-> <<0, 55, 69, 83, 97>>],
     FZ |-> [USCS |-> <<0, -50, -100, -150, -200, -250, -350>>,
             Metric |-> <<0, -222, -445, -667, -890, -1112, -1557>>],
     IA |-> [USCS |-> <<0, 2, 4>>, Metric |-> <<0, 2, 4>>],
     SA |-> [USCS |-> <<0, -1, -3, -6, 1, 6>>, Metric |-> <<0, -1, -3, -6, 1, 6>>]]

FILTER_CONFIG == {"FZ"}

(* the last index of the least |value - target| *)
ArgMinLast(value, targets) ==
    CHOOSE i \in 1..Len(targets) :
        /\ \A j \in 1..Len(targets) : Abs(value - targets[i] * Scale) <= Abs(value - targets[j] * Scale)
        /\ \A j \in (i + 1)..Len(targets) : Abs(value - targets[j] * Scale) > Abs(value - targets[i] * Scale)

(* distances.argmin(): the first index of the least |value - target| *)
ArgMin(value, targets) ==
    CHOOSE i \in 1..Len(targets) :
        /\ \A j \in 1..Len(targets) : Abs(value - targets[i] * Scale) <= Abs(value - targets[j] * Scale)
        /\ \A j \in 1..(i - 1) : Abs(value - targets[j] * Scale) > Abs(value - targets[i] * Scale)

Nearest(values, targets) ==
    [i \in 1..Len(values) |-> targets[ArgMin(values[i], targets)] * Scale]

_discretize_channel(values, targets, channel_name) ==
    Nearest(IF channel_name \in FILTER_CONFIG THEN low_pass_filter(values) ELSE values, targets)

(* no command channel is taken to exist *)
_no_existing_cmd_channels(channels) == <<>>

_get_existing_cmd_channels(channels) ==
    SelectSeq([i \in 1..Len(CmdSources) |-> CmdName(CmdSources[i])],
              LAMBDA c : Contains(channels, c))

(* 0: valid; 1: a logged validation failure; 2: data.shape[1] raises        *)
(* IndexError (data is not 2-D)                                             *)
_validate_inputs(channels, units, data, unit_system) ==
    IF Len(channels) # Len(units) THEN 1
    ELSE IF data.ndim # 2 THEN 2
    ELSE IF Len(channels) # data.ncols THEN 1
    ELSE IF unit_system \notin {"USCS", "Metric"} THEN 1
    ELSE 0

(* The sources _generate_cmd_channels makes a command channel for, in the   *)
(* order of CMD_TARGETS: not existing yet, source present, targets defined  *)
NewCmdSources(channels, unit_system, existing) ==
    SelectSeq(CmdSources,
              LAMBDA chan : /\ ~Contains(existing, CmdName(chan))
                            /\ Contains(channels, chan)
                            /\ unit_system \in DOMAIN CMD_TARGETS[chan])

(* the three lists _generate_cmd_channels appends to, for the sources src *)
GeneratedFor(channels, units, data, unit_system, src) ==
    [new_channels |-> [k \in 1..Len(src) |-> CmdName(src[k])],
     new_units |-> [k \in 1..Len(src) |-> units[Index(channels, src[k])]],
     new_data |-> [k \in 1..Len(src) |->
                      _discretize_channel(Column(data, Index(channels, src[k])),
                                          CMD_TARGETS[src[k]][unit_system], src[k])]]

_generate_cmd_channels(channels, units, data, unit_system, existing) ==
    GeneratedFor(channels, units, data, unit_system, NewCmdSources(channels, unit_system, existing))

(* create_cmd_channels: [raised, same, channels, units, data]; same = TRUE  *)
(* when the input triple itself is returned                                 *)
CmdResult(raised, same, channels, units, data) ==
    [raised |-> raised, same |-> same, channels |-> channels, units |-> units, data |-> data]

(* the end of the try block: append what was generated, convert back *)
AppendGenerated(channels, units, data_sae, sign_convention, gen) ==
    CmdResult(FALSE, FALSE, channels \o gen.new_channels, units \o gen.new_units,
              convert_channel_convention(channels \o gen.new_channels,
                                         IF gen.new_channels # <<>>
                                         THEN ColumnStack(data_sae, gen.new_data)
                                         ELSE data_sae,
                                         "SAE", sign_convention).data)

(* the try block from data_sae on *)
GenerateInSae(channels, units, data_sae, unit_system, sign_convention, existing) ==
    AppendGenerated(channels, units, data_sae, sign_convention,
                    _generate_cmd_channels(channels, units, data_sae, unit_system, existing))

(* command channels generated from the data as given, in any convention *)
CreateCheckedAsGiven(channels, units, data, unit_system, sign_convention, existing, valid) ==
    IF Len(existing) = Len(CmdSources) THEN CmdResult(FALSE, TRUE, channels, units, data)
    ELSE IF valid = 2 THEN CmdResult(TRUE, TRUE, channels, units, data)
    ELSE IF valid = 1 THEN CmdResult(FALSE, TRUE, channels, units, data)
    ELSE GenerateInSae(channels, units, data, unit_system, "SAE", existing)

(* create_cmd_channels after its two checks were evaluated *)
CreateChecked(channels, units, data, unit_system, sign_convention, existing, valid) ==
    IF Len(existing) = Len(CmdSources) THEN CmdResult(FALSE, TRUE, channels, units, data)
    ELSE IF valid = 2 THEN CmdResult(TRUE, TRUE, channels, units, data)
    ELSE IF valid = 1 THEN CmdResult(FALSE, TRUE, channels, units, data)
    ELSE GenerateInSae(channels, units,
                       convert_channel_convention(channels, data, sign_convention, "SAE").data,
                       unit_system, sign_convention, existing)

create_cmd_channels(channels, units, data, unit_system, sign_convention) ==
    CreateChecked(channels, units, data, unit_system, sign_convention,
                  _get_existing_cmd_channels(channels),
                  _validate_inputs(channels, units, data, unit_system))

-----------------------------------------------------------------------------
(* The two heaps.  A heap is a function from the allocated ids; H is the    *)
(* pair [objs, arrs]; an operation on the heap returns [objs, arrs, ret].   *)

SmallestFree(dom) ==
    CHOOSE i \in 1..(Cardinality(dom) + 1) : i \notin dom /\ \A j \in 1..(i - 1) : j \in dom

Heap(o, a) == [objs |-> o, arrs |-> a]

Returned(o, a, ret) == [objs |-> o, arrs |-> a, ret |-> ret]

(* a new ndarray object holding value *)
NewArray(H, value) ==
    LET id == SmallestFree(DOMAIN H.arrs)
    IN  Returned(H.objs, H.arrs @@ (id :> value), id)

(* a new Dataset object *)
NewObject(H, record) ==
    LET id == SmallestFree(DOMAIN H.objs)
    IN  Returned(H.objs @@ (id :> record), H.arrs, id)

(* Dataset.__post_init__ on the fields of record: TRUE when it raises       *)
PostInitRaises(channels, units, data) ==
    \/ Len(channels) # Len(units)
    \/ data.ndim # 2
    \/ Len(channels) # data.ncols

(* result = replace(dataset): the new object shares the input's array *)
ReplaceSharingData(H, ref) ==
    IF PostInitRaises(H.objs[ref].channels, H.objs[ref].units, H.arrs[H.objs[ref].data])
    THEN Returned(H.objs, H.arrs, None)
    ELSE NewObject(H, H.objs[ref])

(* result = replace(dataset, data=dataset.data.copy()): ret = None when     *)
(* the constructor raised                                                   *)
ReplaceWithDataCopy(H, ref) ==
    LET dataset == H.objs[ref]
        copied == NewArray(H, H.arrs[dataset.data])
    IN  IF PostInitRaises(dataset.channels, dataset.units, H.arrs[dataset.data])
        THEN Returned(copied.objs, copied.arrs, None)
        ELSE NewObject(copied, [dataset EXCEPT !.data = copied.ret])

-----------------------------------------------------------------------------
(* UnitSystemConverter.convert_dataset *)

(* channel names of the model that contain the substring "Cmd" *)
CmdLike == {"CmdV", "CmdP", "CmdFZ", "CmdIA", "CmdSA", "CmdX"}

IdentityEntry ==
    [to_si_num |-> 1, to_si_den |-> 1, from_si_num |-> 1, from_si_den |-> 1,
     from_offset |-> 0, to_offset |-> 0]

(* to_si_arr, from_si_arr, from_offset_arr, to_offset_arr, column by column *)
ConversionArrays(unit_types, from_system, to_system) ==
    [i \in 1..Len(unit_types) |->
        IF unit_types[i] = "-" \/ unit_types[i] \notin DOMAIN UNIT_DEFS THEN IdentityEntry
        ELSE CacheEntry(unit_types[i], from_system, to_system)]

updated_units(unit_types, units, to_system) ==
    [i \in 1..Len(unit_types) |->
        IF unit_types[i] = "-" THEN "-"
        ELSE IF unit_types[i] \notin DOMAIN UNIT_DEFS THEN units[i]
        ELSE UNIT_DEFS[unit_types[i]][to_system].unit]

(* (v * to_si + from_offset) / from_si - to_offset *)
ConvertWithOffsets(v, e) ==
    MulDiv(MulDiv(v, e.to_si_num, e.to_si_den) + e.from_offset, e.from_si_den, e.from_si_num)
    - e.to_offset

(* v * (to_si / from_si) *)
ConvertByRatio(v, e) ==
    MulDiv(v, e.to_si_num * e.from_si_den, e.to_si_den * e.from_si_num)

(* np.any(from_offset_arr != 0) or np.any(to_offset_arr != 0) *)
AnyOffset(entries) ==
    \E i \in 1..Len(entries) : entries[i].from_offset # 0 \/ entries[i].to_offset # 0

(* the array after the broadcast conversion, before rounding *)
ConvertedData(a, entries, any_offset) ==
    [a EXCEPT !.rows =
        [i \in 1..NRows(a) |->
            [j \in 1..a.ncols |->
                IF any_offset THEN ConvertWithOffsets(a.rows[i][j], entries[j])
                ELSE ConvertByRatio(a.rows[i][j], entries[j])]]]

(* cmd_indexes: channels.index(s) of every channel whose name contains Cmd *)
CmdIndexes(channels) ==
    {Index(channels, channels[k]) : k \in {k \in 1..Len(channels) : channels[k] \in CmdLike}}

(* no rounding of the command channel columns *)
KeepColumns(a, cmd_indexes) == a

(* result.data[:, cmd_indexes] = np.round(result.data[:, cmd_indexes]) *)
RoundColumns(a, cmd_indexes) ==
    [a EXCEPT !.rows =
        [i \in 1..NRows(a) |->
            [j \in 1..a.ncols |-> IF j \in cmd_indexes THEN NpRound(a.rows[i][j]) ELSE a.rows[i][j]]]]

(* result.data = <new array> *)
RebindData(res, made) ==
    Returned([made.objs EXCEPT ![res] = [made.objs[res] EXCEPT !.data = made.ret]],
             made.arrs, res)

(* with offsets result.data is rebound to a new array, without them the     *)
(* array result.data refers to is written in place                          *)
StoreConverted(H, res, any_offset, value) ==
    IF any_offset THEN RebindData(res, NewArray(H, value))
    ELSE Returned(H.objs, [H.arrs EXCEPT ![H.objs[res].data] = value], res)

(* The data step of convert_dataset on the copy: the broadcast conversion,  *)
(* then the rounding written into result.data in place                      *)
ApplyConversion(H, res, entries) ==
    StoreConverted(H, res, AnyOffset(entries),
                   RoundColumns(ConvertedData(H.arrs[H.objs[res].data], entries, AnyOffset(entries)),
                                CmdIndexes(H.objs[res].channels)))

(* result.units = updated_units; result.unit_system = to_system *)
SetUnits(res, to_system, applied) ==
    Returned([applied.objs EXCEPT ![res] =
                 [applied.objs[res] EXCEPT
                     !.units = updated_units(applied.objs[res].unit_types,
                                             applied.objs[res].units, to_system),
                     !.unit_system = to_system]],
             applied.arrs, res)

(* The try block of convert_dataset once the copy is made.  A unit_types    *)
(* list that is not as long as the data is wide makes the broadcast raise,  *)
(* and the input is returned.                                               *)
ConvertCopy(ref, from_system, to_system, copy) ==
    IF copy.ret = None THEN Returned(copy.objs, copy.arrs, ref)
    ELSE IF Len(copy.objs[copy.ret].unit_types) # copy.arrs[copy.objs[copy.ret].data].ncols
    THEN Returned(copy.objs, copy.arrs, ref)
    ELSE SetUnits(copy.ret, to_system,
                  ApplyConversion(copy, copy.ret,
                                  ConversionArrays(copy.objs[copy.ret].unit_types,
                                                   from_system, to_system)))

(* convert_dataset without the quick return for from_system == to_system *)
convert_dataset_always(H, ref, to_system) ==
    IF ~Contains(Systems, H.objs[ref].unit_system) \/ ~Contains(Systems, to_system)
    THEN Returned(H.objs, H.arrs, ref)
    ELSE ConvertCopy(ref, H.objs[ref].unit_system, to_system, ReplaceWithDataCopy(H, ref))

convert_dataset(H, ref, to_system) ==
    IF H.objs[ref].unit_system = to_system THEN Returned(H.objs, H.arrs, ref)
    ELSE IF ~Contains(Systems, H.objs[ref].unit_system) \/ ~Contains(Systems, to_system)
    THEN Returned(H.objs, H.arrs, ref)
    ELSE ConvertCopy(ref, H.objs[ref].unit_system, to_system, ReplaceWithDataCopy(H, ref))

-----------------------------------------------------------------------------
(* ConventionConverter.convert_dataset_convention *)

(* result.data[:, idx] *= multiplier for every column, then the tag *)
StoreSigned(ref, target_convention, copy, signed) ==
    IF signed = RaisedArray THEN Returned(copy.objs, copy.arrs, ref)
    ELSE Returned([copy.objs EXCEPT ![copy.ret] =
                      [copy.objs[copy.ret] EXCEPT !.sign_convention = target_convention]],
                  [copy.arrs EXCEPT ![copy.objs[copy.ret].data] = signed],
                  copy.ret)

(* the try block of convert_dataset_convention once the copy is made *)
SignCopy(ref, current_convention, target_convention, copy) ==
    IF copy.ret = None THEN Returned(copy.objs, copy.arrs, ref)
    ELSE StoreSigned(ref, target_convention, copy,
                     SignLoop(copy.objs[copy.ret].channels, copy.arrs[copy.objs[copy.ret].data],
                              1, current_convention, target_convention))

convert_dataset_convention(H, ref, target_convention) ==
    IF H.objs[ref].sign_convention = target_convention THEN Returned(H.objs, H.arrs, ref)
    ELSE IF ~validate_convention(target_convention) THEN Returned(H.objs, H.arrs, ref)
    ELSE SignCopy(ref, H.objs[ref].sign_convention, target_convention,
                  ReplaceWithDataCopy(H, ref))

-----------------------------------------------------------------------------
(* DataManager.parse_dataset *)

(* parse_index = np.isin(ref_array, condition) on column ref_idx of a *)
ParseIndex(a, ref_idx, condition) ==
    [i \in 1..NRows(a) |-> AsInt(a.rows[i][ref_idx]) \in condition]

(* data.data[parse_index, :] *)
ParsedRows(a, parse_index) == [a EXCEPT !.rows = SelectRows(a.rows, parse_index)]

(* parse_dataset once the copy is made *)
ParseCopy(ref, channel, condition, copy) ==
    IF copy.ret = None THEN Returned(copy.objs, copy.arrs, ref)
    ELSE RebindData(copy.ret,
             NewArray(copy,
                 ParsedRows(copy.arrs[copy.objs[copy.ret].data],
                            ParseIndex(copy.arrs[copy.objs[copy.ret].data],
                                       Index(copy.objs[copy.ret].channels, channel),
                                       condition))))

parse_dataset(H, ref, channel, condition) ==
    IF ref = None THEN Returned(H.objs, H.arrs, ref)
    ELSE IF ~Contains(H.objs[ref].channels, channel) THEN Returned(H.objs, H.arrs, ref)
    ELSE ParseCopy(ref, channel, condition, ReplaceWithDataCopy(H, ref))

-----------------------------------------------------------------------------
(* DataImporter.  A file is its path and what its text (or MATLAB          *)
(* structure) holds:                                                       *)
(*   stem, ext    the path                                                 *)
(*   exists       the file can be opened                                   *)
(*   lines        how many of the three header lines the file has          *)
(*   tire, unit_system, sign, notes   the header's optional Key=value      *)
(*                fields (the MAT structure's optional keys): <<>> when    *)
(*                absent, <<value>> when present                           *)
(*   rim          the rim width text: [kind, value], kind "absent",        *)
(*                "number" (value, in 1/Scale units) or "text"             *)
(*   channels, units   the two tab-separated header rows                   *)
(*   rows         the numeric rows                                         *)
(*   corrupt      the numeric block cannot be parsed (np.loadtxt / loadmat *)
(*                raises)                                                  *)
(* A file whose extension is .mat holds a MATLAB structure, any other file *)
(* holds text.                                                             *)

(* unit strings of the model that contain the substring "lb" *)
LbLike == {"lb", "ft-lb"}

(* np.loadtxt(filepath, delimiter="\t", skiprows=3) *)
loadtxt(file) ==
    IF file.corrupt \/ \E i, j \in 1..Len(file.rows) : Len(file.rows[i]) # Len(file.rows[j])
    THEN RaisedArray
    ELSE IF file.rows = <<>> THEN Vector(<<>>)
    ELSE IF Len(file.rows) = 1 /\ Len(file.rows[1]) = 1 THEN Scalar0d(file.rows[1][1])
    ELSE IF Len(file.rows) = 1 THEN Vector(file.rows[1])
    ELSE IF Len(file.rows[1]) = 1 THEN Vector([i \in 1..Len(file.rows) |-> file.rows[i][1]])
    ELSE Matrix(Len(file.rows[1]), file.rows)

(* np.column_stack of the structure's per-channel columns *)
loadmat_columns(file) ==
    IF file.corrupt \/ file.channels = <<>>
       \/ \E i \in 1..Len(file.rows) : Len(file.rows[i]) # Len(file.channels)
    THEN RaisedArray
    ELSE Matrix(Len(file.channels), file.rows)

(* np.column_stack([data, np.zeros(len(data))]) *)
AppendZeroColumn(data) ==
    IF data.ndim = 0 THEN RaisedArray
    ELSE IF data.ndim = 1
    THEN Matrix(2, [i \in 1..Len(data.rows[1]) |-> <<data.rows[1][i], 0>>])
    ELSE Matrix(data.ncols + 1, [i \in 1..NRows(data) |-> Append(data.rows[i], 0)])

Metadata(tire_id, rim_width, unit_system, sign_convention, notes, raised) ==
    [tire_id |-> tire_id, rim_width |-> rim_width, unit_system |-> unit_system,
     sign_convention |-> sign_convention, notes |-> notes, raised |-> raised]

(* _extract_dat_metadata: int(float(text)) raises ValueError on a rim width *)
(* that is no number                                                        *)
_extract_dat_metadata(file, units) ==
    Metadata(IF file.tire # <<>> THEN file.tire[1] ELSE "",
             IF file.rim.kind = "number" THEN AsInt(file.rim.value) ELSE 0,
             IF file.unit_system # <<>> THEN file.unit_system[1]
             ELSE IF Contains(units, "lb") THEN "USCS" ELSE "Metric",
             IF file.sign # <<>> THEN file.sign[1] ELSE "SAE",
             IF file.notes # <<>> THEN file.notes[1] ELSE "",
             file.rim.kind = "text")

(* _extract_mat_metadata: the rim width is the first run of digits of the   *)
(* second comma-separated token of tireid, when there is one                *)
_extract_mat_metadata(file) ==
    Metadata(IF file.tire # <<>> THEN file.tire[1] ELSE "",
             IF file.tire # <<>> /\ file.rim.kind = "number" THEN AsInt(file.rim.value) ELSE 0,
             IF file.unit_system # <<>> THEN file.unit_system[1]
             ELSE IF \E i \in 1..Len(file.units) : file.units[i] \in LbLike THEN "USCS" ELSE "Metric",
             IF file.sign # <<>> THEN file.sign[1] ELSE "SAE",
             IF file.notes # <<>> THEN file.notes[1] ELSE "",
             FALSE)

NoDataset ==
    [path |-> <<>>, name |-> <<>>, channels |-> <<>>, units |-> <<>>, unit_types |-> <<>>,
     data |-> RaisedArray, tire_id |-> "", rim_width |-> 0, unit_system |-> "",
     sign_convention |-> "", node_color |-> 0, notes |-> "", demo_name |-> <<>>,
     demo_tire_id |-> "", demo_rim_width |-> 0, demo_notes |-> ""]

(* the importer's result: ok = FALSE is None *)
Imported(ok, ds) == [ok |-> ok, ds |-> ds]

None_ == Imported(FALSE, NoDataset)

(* return Dataset(...) with a constructor that validates nothing *)
ConstructUnchecked(file, name, node_color, demo_name, metadata, cmd) ==
    Imported(TRUE,
        [path |-> <<file.stem, file.ext>>, name |-> name,
         channels |-> cmd.channels, units |-> cmd.units,
         unit_types |-> map_channels_to_types(cmd.channels),
         data |-> cmd.data,
         tire_id |-> metadata.tire_id, rim_width |-> metadata.rim_width,
         unit_system |-> metadata.unit_system,
         sign_convention |-> metadata.sign_convention,
         node_color |-> node_color, notes |-> metadata.notes,
         demo_name |-> demo_name, demo_tire_id |-> "Brand, Compound, Size",
         demo_rim_width |-> 0, demo_notes |-> ""])

(* return Dataset(...): __post_init__ raises on misaligned lengths *)
Construct(file, name, node_color, demo_name, metadata, cmd) ==
    IF cmd.raised THEN None_
    ELSE IF PostInitRaises(cmd.channels, cmd.units, cmd.data) THEN None_
    ELSE Imported(TRUE,
             [path |-> <<file.stem, file.ext>>, name |-> name,
              channels |-> cmd.channels, units |-> cmd.units,
              unit_types |-> map_channels_to_types(cmd.channels),
              data |-> cmd.data,
              tire_id |-> metadata.tire_id, rim_width |-> metadata.rim_width,
              unit_system |-> metadata.unit_system,
              sign_convention |-> metadata.sign_convention,
              node_color |-> node_color, notes |-> metadata.notes,
              demo_name |-> demo_name, demo_tire_id |-> "Brand, Compound, Size",
              demo_rim_width |-> 0, demo_notes |-> ""])

(* from the extracted metadata on: command channels, unit types, Dataset *)
WithMetadata(file, name, node_color, demo_name, channels, units, data, metadata) ==
    IF metadata.raised THEN None_
    ELSE Construct(file, name, node_color, demo_name, metadata,
                   create_cmd_channels(channels, units, data, metadata.unit_system,
                                       metadata.sign_convention))

(* after the SL channel is ensured *)
WithSL(file, name, node_color, demo_name, is_mat, channels, units, data) ==
    IF data = RaisedArray THEN None_
    ELSE WithMetadata(file, name, node_color, demo_name, channels, units, data,
                      IF is_mat THEN _extract_mat_metadata(file)
                      ELSE _extract_dat_metadata(file, units))

(* SL is appended whether or not the file has it *)
BuildDatasetAppending(file, name, node_color, demo_name, data0, is_mat) ==
    IF data0 = RaisedArray THEN None_
    ELSE WithSL(file, name, node_color, demo_name, is_mat,
                Append(file.channels, "SL"), Append(file.units, "-"), AppendZeroColumn(data0))

(* The part import_mat and import_dat share, from the parsed header rows    *)
(* and array on: ensure SL, metadata, command channels, Dataset(...)        *)
BuildDataset(file, name, node_color, demo_name, data0, is_mat) ==
    IF data0 = RaisedArray THEN None_
    ELSE IF ~Contains(file.channels, "SL")
    THEN WithSL(file, name, node_color, demo_name, is_mat,
                Append(file.channels, "SL"), Append(file.units, "-"), AppendZeroColumn(data0))
    ELSE WithSL(file, name, node_color, demo_name, is_mat, file.channels, file.units, data0)

import_dat(file, name, node_color, demo_name) ==
    IF ~file.exists \/ file.ext = ".mat" \/ file.lines < 3 THEN None_
    ELSE BuildDataset(file, name, node_color, demo_name, loadtxt(file), FALSE)

import_mat(file, name, node_color, demo_name) ==
    IF ~file.exists \/ file.ext # ".mat" THEN None_
    ELSE BuildDataset(file, name, node_color, demo_name, loadmat_columns(file), TRUE)

import_file(file, name, node_color, demo_name) ==
    IF ~file.exists THEN None_
    ELSE IF file.ext = ".mat" THEN import_mat(file, name, node_color, demo_name)
    ELSE IF file.ext \in {".dat", ".txt"} THEN import_dat(file, name, node_color, demo_name)
    ELSE None_

-----------------------------------------------------------------------------
(* DataManager: _datasets is a dict, here the sequence of its items [k, v]  *)

Item(k, v) == [k |-> k, v |-> v]

Keys(d) == [i \in 1..Len(d) |-> d[i].k]

Values(d) == [i \in 1..Len(d) |-> d[i].v]

HasKey(d, k) == \E i \in 1..Len(d) : d[i].k = k

(* d.pop(k, None); d[k] = v: a present key moves to the end *)
DictSetReinsert(d, k, v) == Append(SelectSeq(d, LAMBDA it : it.k # k), [k |-> k, v |-> v])

(* d[k] = v: a present key keeps its position *)
DictSet(d, k, v) ==
    IF HasKey(d, k) THEN [i \in 1..Len(d) |-> IF d[i].k = k THEN Item(k, v) ELSE d[i]]
    ELSE Append(d, Item(k, v))

(* del d[k] *)
DictDel(d, k) == SelectSeq(d, LAMBDA it : it.k # k)

(* d.get(k) *)
DictGet(d, k) == IF HasKey(d, k) THEN d[Index(Keys(d), k)].v ELSE None

add_dataset(d, name, dataset) == [datasets |-> DictSet(d, name, dataset), ret |-> TRUE]

get_dataset(d, name) == DictGet(d, name)

(* a removal that reports success whether or not the name was stored *)
remove_dataset_always_true(d, name) == [datasets |-> DictDel(d, name), ret |-> TRUE]

remove_dataset(d, name) ==
    IF HasKey(d, name) THEN [datasets |-> DictDel(d, name), ret |-> TRUE]
    ELSE [datasets |-> d, ret |-> FALSE]

list_datasets(d) == Keys(d)

(* the loop of update_dataset over the items of the old dict *)
RECURSIVE RekeyLoop(_, _, _, _, _)
RekeyLoop(d, i, old_name, new_name, updated_dict) ==
    IF i > Len(d) THEN updated_dict
    ELSE RekeyLoop(d, i + 1, old_name, new_name,
                   IF d[i].k = old_name THEN DictSet(updated_dict, new_name, DictGet(d, old_name))
                   ELSE DictSet(updated_dict, d[i].k, d[i].v))

(* a rename without the presence check *)
update_dataset_unchecked(d, old_name, new_name) ==
    [datasets |-> RekeyLoop(d, 1, old_name, new_name, <<>>), ret |-> TRUE]

update_dataset(d, old_name, new_name) ==
    IF ~HasKey(d, old_name) THEN [datasets |-> d, ret |-> FALSE]
    ELSE IF old_name # new_name
    THEN [datasets |-> RekeyLoop(d, 1, old_name, new_name, <<>>), ret |-> TRUE]
    ELSE [datasets |-> d, ret |-> TRUE]

(* list_demo_names: ds.demo_name of a stored None raises AttributeError *)
list_demo_names(d, o) ==
    IF \E i \in 1..Len(d) : d[i].v = None THEN [raised |-> TRUE, names |-> <<>>]
    ELSE [raised |-> FALSE, names |-> [i \in 1..Len(d) |-> o[d[i].v].demo_name]]

(* update_demo_name: the first stored dataset whose demo_name is old_name;  *)
(* a None met before it raises AttributeError                               *)
DemoHits(d, o, old_name) ==
    {i \in 1..Len(d) : d[i].v = None \/ o[d[i].v].demo_name = old_name}

Min(S) == CHOOSE i \in S : \A j \in S : i <= j

RenameDemo(d, o, new_name, hits) ==
    IF hits = {} THEN [objs |-> o, ret |-> FALSE, raised |-> FALSE]
    ELSE IF d[Min(hits)].v = None THEN [objs |-> o, ret |-> FALSE, raised |-> TRUE]
    ELSE [objs |-> [o EXCEPT ![d[Min(hits)].v].demo_name = new_name],
          ret |-> TRUE, raised |-> FALSE]

update_demo_name(d, o, old_name, new_name) ==
    RenameDemo(d, o, new_name, DemoHits(d, o, old_name))

(* get_channels: list(dict.fromkeys(channels)) *)
AppendNew(front, x) == IF Contains(front, x) THEN front ELSE Append(front, x)

(* de-duplication that keeps the last occurrence *)
RECURSIVE UniqueKeepLast(_)
UniqueKeepLast(s) ==
    IF s = <<>> THEN <<>>
    ELSE IF Contains(Tail(s), Head(s)) THEN UniqueKeepLast(Tail(s))
    ELSE <<Head(s)>> \o UniqueKeepLast(Tail(s))

RECURSIVE Unique(_)
Unique(s) ==
    IF s = <<>> THEN <<>>
    ELSE AppendNew(Unique(SubSeq(s, 1, Len(s) - 1)), s[Len(s)])

RECURSIVE ExtendChannels(_, _, _)
ExtendChannels(d, o, names) ==
    IF names = <<>> THEN <<>>
    ELSE (IF get_dataset(d, Head(names)) # None THEN o[get_dataset(d, Head(names))].channels ELSE <<>>)
         \o ExtendChannels(d, o, Tail(names))

get_channels(d, o, names) == Unique(ExtendChannels(d, o, names))

-----------------------------------------------------------------------------
(* The files the controller is pointed at *)

File(stem, ext, exists, lines, tire, rim, unit_system, sign, notes, channels, units, rows, corrupt) ==
    [stem |-> stem, ext |-> ext, exists |-> exists, lines |-> lines, tire |-> tire, rim |-> rim,
     unit_system |-> unit_system, sign |-> sign, notes |-> notes, channels |-> channels,
     units |-> units, rows |-> rows, corrupt |-> corrupt]

Rim(kind, value) == [kind |-> kind, value |-> value]

FileSystem ==
    << File(<<"runA">>, ".dat", TRUE, 3, <<"TestTire">>, Rim("number", 7 * Scale), <<"USCS">>,
            <<"SAE">>, <<>>, <<"V", "P">>, <<"mph", "psi">>,
            << <<10 * Scale, 9 * Scale>>, <<16 * Scale, 11 * Scale>> >>, FALSE),
       File(<<"runA">>, ".mat", TRUE, 0, <<"Slick">>, Rim("absent", 0), <<>>,
            <<"ISO">>, <<"wet">>, <<"FZ", "SA", "RST">>, <<"lb", "deg", "deg F">>,
            << <<148 * Scale, -3 * Scale, 90 * Scale>> >>, FALSE),
       File(<<"broken">>, ".dat", TRUE, 3, <<>>, Rim("absent", 0), <<>>,
            <<>>, <<>>, <<"FX">>, <<"N">>, <<>>, TRUE),
       File(<<"notes">>, ".csv", TRUE, 0, <<>>, Rim("absent", 0), <<>>,
            <<>>, <<>>, <<>>, <<>>, <<>>, FALSE) >>

(* a file path: an index into FileSystem, or EmptyPath for "" (Path(".")) *)
EmptyPath == 0

Paths == 0..Len(FileSystem)

-----------------------------------------------------------------------------
(* DataController *)

(* colors of the configured colorway (plotly's G10) *)
ColorwayLen == 10

_get_next_color(counter) == counter % ColorwayLen

(* the base name whether or not it is taken *)
BaseName(taken, base, counter) == base

RECURSIVE FirstFreeName(_, _, _)
FirstFreeName(taken, base, counter) ==
    IF Contains(taken, IF counter = 0 THEN base ELSE Suffixed(base, counter))
    THEN FirstFreeName(taken, base, counter + 1)
    ELSE IF counter = 0 THEN base ELSE Suffixed(base, counter)

_generate_unique_name(d, base_name) == FirstFreeName(list_datasets(d), base_name, 0)

DemoBase == <<"Demo data">>

(* raised when list_demo_names raises *)
UniqueDemoName(demo) ==
    [raised |-> demo.raised,
     name |-> IF demo.raised THEN DemoBase ELSE FirstFreeName(demo.names, DemoBase, 0)]

_generate_unique_demo_name(d, o) == UniqueDemoName(list_demo_names(d, o))

(* the state import_data works on *)
ImportState(o, a, d, counter, imported_names, raised) ==
    [objs |-> o, arrs |-> a, datasets |-> d, import_counter |-> counter,
     imported_names |-> imported_names, raised |-> raised]

(* self.dm.add_dataset(name, dataset); imported_names.append(name);         *)
(* self.import_counter += 1                                                 *)
StoreImported(S, name, o, a, dataset) ==
    ImportState(o, a, add_dataset(S.datasets, name, dataset).datasets,
                S.import_counter + 1, Append(S.imported_names, name), FALSE)

(* the Dataset object the importer returned, on the heap *)
AllocDataset(S, name, ds, arr) ==
    NewObject(arr, [ds EXCEPT !.data = arr.ret])

StoreObject(S, name, obj) == StoreImported(S, name, obj.objs, obj.arrs, obj.ret)

(* the try block once the importer has returned *)
ImportGot(S, name, got) ==
    IF got.ok
    THEN StoreObject(S, name,
                     AllocDataset(S, name, got.ds, NewArray(Heap(S.objs, S.arrs), got.ds.data)))
    ELSE StoreImported(S, name, S.objs, S.arrs, None)

(* one pass of the loop once name and demo_name are generated *)
ImportNamed(S, file, name, demo) ==
    IF demo.raised THEN [S EXCEPT !.raised = TRUE]
    ELSE IF file.ext = ".mat"
    THEN ImportGot(S, name, import_mat(file, name, _get_next_color(S.import_counter), demo.name))
    ELSE IF file.ext \in {".dat", ".txt"}
    THEN ImportGot(S, name, import_dat(file, name, _get_next_color(S.import_counter), demo.name))
    ELSE S

(* one pass of the loop of import_data *)
ImportOne(S, file_path) ==
    IF file_path = EmptyPath THEN S
    ELSE ImportNamed(S, FileSystem[file_path],
                     _generate_unique_name(S.datasets, FileSystem[file_path].stem),
                     _generate_unique_demo_name(S.datasets, S.objs))

RECURSIVE ImportLoop(_, _)
ImportLoop(S, file_paths) ==
    IF file_paths = <<>> \/ S.raised THEN S
    ELSE ImportLoop(ImportOne(S, Head(file_paths)), Tail(file_paths))

import_data(o, a, d, counter, file_paths) ==
    ImportLoop(ImportState(o, a, d, counter, <<>>, FALSE), file_paths)

(* the setattr loop of a regular update *)
SetReal(ds, updates) ==
    [ds EXCEPT !.name = updates.name, !.tire_id = updates.tire_id,
               !.rim_width = updates.rim_width, !.notes = updates.notes,
               !.node_color = updates.node_color]

(* a demo update written over the real attributes *)
SetDemoOverReal(ds, updates) ==
    [ds EXCEPT !.name = updates.name, !.tire_id = updates.tire_id,
               !.rim_width = updates.rim_width, !.notes = updates.notes,
               !.node_color = updates.node_color]

(* the setattr loop of a demo update: demo_<key> when the Dataset has that  *)
(* attribute, else <key> (node_color)                                       *)
SetDemo(ds, updates) ==
    [ds EXCEPT !.demo_name = updates.name, !.demo_tire_id = updates.tire_id,
               !.demo_rim_width = updates.rim_width, !.demo_notes = updates.notes,
               !.node_color = updates.node_color]

Updated(o, d, ret) == [objs |-> o, datasets |-> d, ret |-> ret]

(* self.dm.update_demo_name(original_name, updates['name']) *)
DemoRenamed(d, edited, renamed) ==
    IF renamed.raised THEN Updated(edited, d, FALSE) ELSE Updated(renamed.objs, d, TRUE)

(* the demo branch once the dataset is found *)
UpdateDemo(o, d, ref, updates) ==
    DemoRenamed(d, [o EXCEPT ![ref] = SetDemo(o[ref], updates)],
                update_demo_name(d, [o EXCEPT ![ref] = SetDemo(o[ref], updates)],
                                 o[ref].demo_name, updates.name))

(* idx = self.dm.list_demo_names().index(dataset_name) *)
UpdateDemoAt(o, d, demo, dataset_name, updates) ==
    IF demo.raised THEN Updated(o, d, FALSE)
    ELSE IF ~Contains(demo.names, dataset_name) THEN Updated(o, d, FALSE)
    ELSE UpdateDemo(o, d, d[Index(demo.names, dataset_name)].v, updates)

(* the regular branch once the dataset is fetched *)
UpdateReal(o, d, ref, updates) ==
    IF ref = None THEN Updated(o, d, FALSE)
    ELSE IF updates.name # o[ref].name
    THEN Updated([o EXCEPT ![ref] = SetReal(o[ref], updates)],
                 update_dataset(d, o[ref].name, updates.name).datasets, TRUE)
    ELSE Updated([o EXCEPT ![ref] = SetReal(o[ref], updates)], d, TRUE)

update_dataset_info(o, d, dataset_name, updates, is_demo) ==
    IF is_demo THEN UpdateDemoAt(o, d, list_demo_names(d, o), dataset_name, updates)
    ELSE UpdateReal(o, d, get_dataset(d, dataset_name), updates)

(* DataController.remove_dataset: True whatever the manager answered *)
controller_remove_dataset(d, name) == [datasets |-> remove_dataset(d, name).datasets, ret |-> TRUE]

-----------------------------------------------------------------------------
(* DataProcessor.prepare_dataset: unit conversion, sign conversion, then    *)
(* the command-channel filters; cmd_filters is <<>> or one filter           *)
(* <<[channel, values, has_none]>> (has_none: None is among the values)     *)

(* np.empty((0, ncols)) when None is among the values, else the rows whose  *)
(* truncated channel value is among them                                    *)
FilteredRows(a, idx, values, has_none) ==
    IF has_none THEN [a EXCEPT !.rows = <<>>]
    ELSE ParsedRows(a, ParseIndex(a, idx, values))

(* _filter_by_channel once the copy is made; replace() raising is ret None *)
FilterCopy(channel, values, has_none, copy) ==
    IF copy.ret = None THEN copy
    ELSE RebindData(copy.ret,
             NewArray(copy,
                 FilteredRows(copy.arrs[copy.objs[copy.ret].data],
                              Index(copy.objs[copy.ret].channels, channel),
                              values, has_none)))

_filter_by_channel(H, ref, channel, values, has_none) ==
    IF ~Contains(H.objs[ref].channels, channel) THEN Returned(H.objs, H.arrs, ref)
    ELSE FilterCopy(channel, values, has_none, ReplaceWithDataCopy(H, ref))

(* the filter loop of prepare_dataset *)
PrepareFilters(cmd_filters, signs) ==
    IF cmd_filters = <<>> THEN signs
    ELSE IF cmd_filters[1].values = {} /\ ~cmd_filters[1].has_none THEN signs
    ELSE _filter_by_channel(signs, signs.ret, cmd_filters[1].channel, cmd_filters[1].values,
                            cmd_filters[1].has_none)

(* prepare_dataset after the unit conversion *)
PrepareSigns(sign_convention, cmd_filters, units) ==
    PrepareFilters(cmd_filters, convert_dataset_convention(units, units.ret, sign_convention))

prepare_dataset(H, ref, unit_system, sign_convention, cmd_filters) ==
    PrepareSigns(sign_convention, cmd_filters, convert_dataset(H, ref, unit_system))

-----------------------------------------------------------------------------
(* What the state machines share.  history holds the calls made: the most   *)
(* recent one (DataManager, DataController) or the whole chain (converters, *)
(* importer, command generator).                                            *)

(* args the arguments, before what the call started from, ret what it       *)
(* returned, raised whether it raised                                       *)
Call(op, args, before, ret, raised) ==
    [op |-> op, args |-> args, before |-> before, ret |-> ret, raised |-> raised]

Last == history[Len(history)]

(* a Dataset with its array, as a value *)
Deref(o, a, ref) == [o[ref] EXCEPT !.data = a[o[ref].data]]

-----------------------------------------------------------------------------
(* DataManager driven directly: add_dataset, remove_dataset and             *)
(* update_dataset on names of DmNames and the two Dataset objects of the    *)
(* heap.                                                                    *)

DmNames == {<<"runA">>, <<"runB">>, <<"runC">>}

(* the Dataset objects the caller holds: the two good files of FileSystem,  *)
(* imported                                                                 *)
HeldDatasets == import_data(<<>>, <<>>, <<>>, 0, <<1, 2>>)

InitDM ==
    /\ objs = HeldDatasets.objs
    /\ arrs = HeldDatasets.arrs
    /\ datasets = << >>
    /\ import_counter = 0
    /\ history = << >>
    /\ conversion_cache = << >>

DmAddDataset ==
    \E name \in DmNames, dataset \in DOMAIN objs :
        /\ HasKey(datasets, name) \/ Len(datasets) < MaxStored
        /\ datasets' = add_dataset(datasets, name, dataset).datasets
        /\ history' = <<Call("add_dataset", [name |-> name, dataset |-> dataset], datasets,
                             add_dataset(datasets, name, dataset).ret, FALSE)>>
        /\ UNCHANGED <<objs, arrs, import_counter, conversion_cache>>

DmRemoveDataset ==
    \E name \in DmNames :
        /\ datasets' = remove_dataset(datasets, name).datasets
        /\ history' = <<Call("remove_dataset", [name |-> name], datasets,
                             remove_dataset(datasets, name).ret, FALSE)>>
        /\ UNCHANGED <<objs, arrs, import_counter, conversion_cache>>

DmUpdateDataset ==
    \E old_name \in DmNames, new_name \in DmNames :
        /\ datasets' = update_dataset(datasets, old_name, new_name).datasets
        /\ history' = <<Call("update_dataset", [old_name |-> old_name, new_name |-> new_name],
                             datasets, update_dataset(datasets, old_name, new_name).ret, FALSE)>>
        /\ UNCHANGED <<objs, arrs, import_counter, conversion_cache>>

NameLists == UNION {[1..n -> DmNames] : n \in 0..MaxNames}

DmGetChannels ==
    \E names \in NameLists :
        /\ history' = <<Call("get_channels", names, datasets,
                             get_channels(datasets, objs, names), FALSE)>>
        /\ UNCHANGED <<objs, arrs, datasets, import_counter, conversion_cache>>

NextDM ==
    \/ DmAddDataset
    \/ DmRemoveDataset
    \/ DmUpdateDataset
    \/ DmGetChannels

SpecDM == InitDM /\ [][NextDM]_vars

(* C1: after update_dataset(old, new) returned True, list_datasets() is as  *)
(* long as before and differs from before only at old's position, which     *)
(* holds new; every other name keeps its position and dataset, and          *)
(* get_dataset(new) is the dataset that was stored under old.               *)
C1_RenamePreservesOrder ==
    (history # <<>> /\ Last.op = "update_dataset" /\ Last.ret = TRUE) =>
        /\ Len(datasets) = Len(Last.before)
        /\ \A i \in 1..Len(datasets) :
              IF Last.before[i].k = Last.args.old_name
              THEN datasets[i].k = Last.args.new_name
              ELSE datasets[i] = Last.before[i]
        /\ get_dataset(datasets, Last.args.new_name) = DictGet(Last.before, Last.args.old_name)

(* C10: add_dataset(n, d) returns True and get_dataset(n) is d; a present n *)
(* keeps the number of names and every other entry (n keeps its position),  *)
(* an absent n becomes the last name of list_datasets().                    *)
C10_AddNeverRejects ==
    (history # <<>> /\ Last.op = "add_dataset") =>
        /\ Last.ret = TRUE
        /\ ~Last.raised
        /\ get_dataset(datasets, Last.args.name) = Last.args.dataset
        /\ HasKey(Last.before, Last.args.name) =>
              /\ list_datasets(datasets) = list_datasets(Last.before)
              /\ \A i \in 1..Len(datasets) :
                    datasets[i].k # Last.args.name => datasets[i] = Last.before[i]
        /\ ~HasKey(Last.before, Last.args.name) =>
              /\ list_datasets(datasets) = Append(list_datasets(Last.before), Last.args.name)
              /\ SubSeq(datasets, 1, Len(Last.before)) = Last.before

(* an add that overwrites the first of two stored names with another        *)
(* dataset                                                                  *)
C10_Witness ==
    /\ history # <<>>
    /\ Last.op = "add_dataset"
    /\ Len(Last.before) = 2
    /\ Last.before[1].k = Last.args.name
    /\ Last.before[1].v # Last.args.dataset

(* C11: remove_dataset(n) returns True exactly when n was stored; after     *)
(* True get_dataset(n) is None and the other names keep their datasets and  *)
(* relative order; after False the DataManager is unchanged.                *)
C11_RemoveReportsPresence ==
    (history # <<>> /\ Last.op = "remove_dataset") =>
        /\ ~Last.raised
        /\ Last.ret = HasKey(Last.before, Last.args.name)
        /\ Last.ret = TRUE =>
              /\ get_dataset(datasets, Last.args.name) = None
              /\ \E i \in 1..Len(Last.before) :
                    /\ Last.before[i].k = Last.args.name
                    /\ datasets = SubSeq(Last.before, 1, i - 1)
                                      \o SubSeq(Last.before, i + 1, Len(Last.before))
        /\ Last.ret = FALSE => datasets = Last.before

(* the middle one of three stored names removed *)
C11_Witness ==
    /\ history # <<>>
    /\ Last.op = "remove_dataset"
    /\ Len(Last.before) = 3
    /\ Last.before[2].k = Last.args.name
    /\ Last.ret = TRUE
    /\ Len(datasets) = 2

(* C12: update_dataset(old, new) returns False and leaves keys, order and   *)
(* datasets unchanged when old is not stored, whatever new is; it returns   *)
(* True and leaves the DataManager unchanged when old is stored and         *)
(* old = new.                                                               *)
C12_RenameFailureAndNoOp ==
    (history # <<>> /\ Last.op = "update_dataset") =>
        /\ ~Last.raised
        /\ ~HasKey(Last.before, Last.args.old_name) =>
              /\ Last.ret = FALSE
              /\ datasets = Last.before
        /\ (HasKey(Last.before, Last.args.old_name)
            /\ Last.args.old_name = Last.args.new_name) =>
              /\ Last.ret = TRUE
              /\ datasets = Last.before

(* a rename of a name that is not stored to a name that is, with two names  *)
(* stored                                                                   *)
C12_Witness ==
    /\ history # <<>>
    /\ Last.op = "update_dataset"
    /\ Len(Last.before) = 2
    /\ ~HasKey(Last.before, Last.args.old_name)
    /\ HasKey(Last.before, Last.args.new_name)
    /\ Last.ret = FALSE

(* channels of the stored datasets named in names *)
NamedChannels(d, o, names) ==
    UNION {Range(o[d[i].v].channels) : i \in {j \in 1..Len(d) : Contains(names, d[j].k)}}

(* C13: get_channels(names) holds each channel of each named stored dataset *)
(* exactly once and nothing else, ordered by first occurrence in the        *)
(* concatenation of the datasets' channel lists in the order of names;      *)
(* names that are not stored contribute nothing and raise nothing; the      *)
(* DataManager is not modified.                                             *)
C13_GetChannelsOrderedUnion ==
    (history # <<>> /\ Last.op = "get_channels") =>
        /\ ~Last.raised
        /\ datasets = Last.before
        /\ NoDuplicates(Last.ret)
        /\ Range(Last.ret) = NamedChannels(datasets, objs, Last.args)
        /\ \A i, j \in 1..Len(Last.ret) :
              i < j => Index(ExtendChannels(datasets, objs, Last.args), Last.ret[i])
                          < Index(ExtendChannels(datasets, objs, Last.args), Last.ret[j])

(* two stored datasets that share SL, named together with a name that is   *)
(* not stored                                                               *)
C13_Witness ==
    /\ history # <<>>
    /\ Last.op = "get_channels"
    /\ Len(Last.args) = 3
    /\ \E i \in 1..3 : ~HasKey(datasets, Last.args[i])
    /\ Count(ExtendChannels(datasets, objs, Last.args), "SL") = 2
    /\ Count(Last.ret, "SL") = 1
    /\ Len(Last.ret) = 10

-----------------------------------------------------------------------------
(* The converters driven on an imported dataset: the dataset of one of      *)
(* ConvFiles is stored in the manager; convert_dataset,                     *)
(* convert_dataset_convention and parse_dataset are applied to the dataset  *)
(* the previous call returned (first to the stored one), and                *)
(* prepare_dataset to the stored one, as a plot does.                       *)

ConvFiles ==
    << FileSystem[1],
       FileSystem[2],
       File(<<"runC">>, ".dat", TRUE, 3, <<>>, Rim("absent", 0), <<"CGS">>,
            <<"Custom">>, <<>>, <<"FY", "SL">>, <<"dyn", "-">>,
            << <<5 * Scale, 1 * Scale>>, <<-7 * Scale, 2 * Scale>> >>, FALSE),
       File(<<"runD">>, ".txt", TRUE, 3, <<"Slick">>, Rim("number", 8 * Scale), <<"Metric">>,
            <<"Adapted ISO">>, <<>>, <<"IA">>, <<"deg">>,
            << <<2 * Scale>>, <<-4 * Scale>> >>, FALSE),
       File(<<"runE">>, ".dat", TRUE, 3, <<>>, Rim("absent", 0), <<"Metric">>,
            <<"SAE">>, <<>>, <<"FX", "NFX">>, <<"N", "none">>,
            << <<1200 * Scale, 500>>, <<-800 * Scale, -250>> >>, FALSE) >>

ConvSystems == {"USCS", "Metric", "SI", "CGS"}

ConvConventions == Range(SUPPORTED_CONVENTIONS) \cup {"Custom"}

ParseArgs ==
    {[channel |-> "SL", condition |-> {1}], [channel |-> "CmdP", condition |-> {8}],
     [channel |-> "P", condition |-> {62}], [channel |-> "SA", condition |-> {0, -3}]}

PlotFilters ==
    {<<>>, <<[channel |-> "CmdV", values |-> {15}, has_none |-> FALSE]>>,
     <<[channel |-> "SL", values |-> {}, has_none |-> TRUE]>>}

PlotArgs ==
    [unit_system : {"USCS", "Metric"}, sign_convention : {"SAE", "ISO"}, cmd_filters : PlotFilters]

(* the controller's import of ConvFiles[f] into an empty manager *)
ConvStart(f) ==
    ImportGot(ImportState(<<>>, <<>>, <<>>, 0, <<>>, FALSE), ConvFiles[f].stem,
              import_file(ConvFiles[f], ConvFiles[f].stem, _get_next_color(0), DemoBase))

InitConv ==
    \E f \in 1..Len(ConvFiles) :
        /\ objs = ConvStart(f).objs
        /\ arrs = ConvStart(f).arrs
        /\ datasets = ConvStart(f).datasets
        /\ import_counter = ConvStart(f).import_counter
        /\ history = << >>
        /\ conversion_cache = << >>

(* the dataset the next converter call is given *)
Cur == IF history = <<>> THEN datasets[1].v ELSE Last.ret.ref

(* a dataset as a call sees it: the object and its value *)
Seen(o, a, ref) == [ref |-> ref, value |-> Deref(o, a, ref)]

(* the call op(dataset, args) returned r *)
ConvStep(op, args, dataset, r) ==
    /\ objs' = r.objs
    /\ arrs' = r.arrs
    /\ history' = Append(history, Call(op, args, Seen(objs, arrs, dataset),
                                       Seen(r.objs, r.arrs, r.ret), FALSE))
    /\ UNCHANGED <<datasets, import_counter>>

ConvertDataset ==
    \E to_system \in ConvSystems :
        /\ Len(history) < MaxCalls
        /\ ConvStep("convert_dataset", to_system, Cur,
                    convert_dataset(Heap(objs, arrs), Cur, to_system))
        /\ conversion_cache' = CacheAfterConvert(conversion_cache, objs[Cur].unit_system,
                                                 to_system)

ConvertDatasetConvention ==
    \E target_convention \in ConvConventions :
        /\ Len(history) < MaxCalls
        /\ ConvStep("convert_dataset_convention", target_convention, Cur,
                    convert_dataset_convention(Heap(objs, arrs), Cur, target_convention))
        /\ UNCHANGED conversion_cache

ParseDataset ==
    \E p \in ParseArgs :
        /\ Len(history) < MaxCalls
        /\ ConvStep("parse_dataset", p, Cur,
                    parse_dataset(Heap(objs, arrs), Cur, p.channel, p.condition))
        /\ UNCHANGED conversion_cache

PrepareDataset ==
    \E p \in PlotArgs :
        /\ Len(history) < MaxCalls
        /\ ConvStep("prepare_dataset", p, datasets[1].v,
                    prepare_dataset(Heap(objs, arrs), datasets[1].v, p.unit_system,
                                    p.sign_convention, p.cmd_filters))
        /\ conversion_cache' = CacheAfterConvert(conversion_cache,
                                                 objs[datasets[1].v].unit_system, p.unit_system)

(* convert_channel_convention on the channels and data of the current      *)
(* dataset, as code without a full Dataset calls it; the dataset itself is  *)
(* what the next call is given                                              *)
ConvertChannelConvention ==
    \E current_convention \in ConvConventions, target_convention \in ConvConventions :
        /\ Len(history) < MaxCalls
        /\ history' = Append(history,
               Call("convert_channel_convention",
                    [current_convention |-> current_convention,
                     target_convention |-> target_convention],
                    Seen(objs, arrs, Cur),
                    [ref |-> Cur, value |-> Deref(objs, arrs, Cur),
                     array |-> convert_channel_convention(objs[Cur].channels, arrs[objs[Cur].data],
                                                          current_convention, target_convention)],
                    FALSE))
        /\ UNCHANGED <<objs, arrs, datasets, import_counter, conversion_cache>>

NextConv ==
    \/ ConvertDataset
    \/ ConvertDatasetConvention
    \/ ParseDataset
    \/ PrepareDataset
    \/ ConvertChannelConvention

SpecConv == InitConv /\ [][NextConv]_vars

(* len(channels) == len(units) == len(unit_types) == data.shape[1] *)
Aligned(ds) ==
    /\ ds.data.ndim = 2
    /\ Len(ds.channels) = Len(ds.units)
    /\ Len(ds.units) = Len(ds.unit_types)
    /\ Len(ds.unit_types) = ds.data.ncols
    /\ \A i \in 1..NRows(ds.data) : Len(ds.data.rows[i]) = ds.data.ncols

(* C2: every Dataset the importer returned, and every Dataset returned from *)
(* it by any sequence of convert_dataset, convert_dataset_convention and    *)
(* parse_dataset calls (error paths included), has                          *)
(* len(channels) == len(units) == len(unit_types) == data.shape[1].         *)
C2_AlignmentInvariant ==
    /\ \A ref \in DOMAIN objs : Aligned(Deref(objs, arrs, ref))
    /\ \A k \in 1..Len(history) : Aligned(history[k].ret.value)

(* a row-dropping parse_dataset followed by a unit conversion that returned *)
(* a converted dataset                                                      *)
C2_Witness ==
    /\ Len(history) = 2
    /\ history[1].op = "parse_dataset"
    /\ NRows(history[1].ret.value.data) < NRows(history[1].before.value.data)
    /\ history[2].op = "convert_dataset"
    /\ history[2].ret.ref # history[2].before.ref

(* the data convert_dataset(v, to_system) is to produce from the value v *)
ConvertedUnits(v, entries) ==
    RoundColumns(ConvertedData(v.data, entries, AnyOffset(entries)), CmdIndexes(v.channels))

(* C6: for a dataset D whose sign_convention is A and every convention B,   *)
(* convert_dataset_convention(convert_dataset_convention(D, B), A) has the  *)
(* data of D in every column and sign_convention A.                         *)
C6_SignRoundTrip ==
    \A k \in 1..(Len(history) - 1) :
        (/\ history[k].op = "convert_dataset_convention"
         /\ history[k + 1].op = "convert_dataset_convention"
         /\ validate_convention(history[k].before.value.sign_convention)
         /\ history[k + 1].before.ref = history[k].ret.ref
         /\ history[k + 1].args = history[k].before.value.sign_convention)
        => /\ history[k + 1].ret.value.data = history[k].before.value.data
           /\ history[k + 1].ret.value.sign_convention = history[k].before.value.sign_convention

(* ISO data with FZ and SA taken to another convention, which flips         *)
(* columns, and back                                                        *)
C6_Witness ==
    /\ Len(history) = 2
    /\ history[1].op = "convert_dataset_convention"
    /\ history[2].op = "convert_dataset_convention"
    /\ history[1].before.value.sign_convention = "ISO"
    /\ history[2].args = "ISO"
    /\ history[1].ret.value.data # history[1].before.value.data
    /\ history[2].ret.ref # history[1].before.ref

(* C8: convert_dataset(D, D.unit_system) returns the object D itself with   *)
(* every field as it was, also for a unit_system that is none of SI,        *)
(* Metric, USCS; convert_dataset_convention(D, D.sign_convention) returns D *)
(* itself.                                                                  *)
C8_ConversionIdentity ==
    \A k \in 1..Len(history) :
        /\ (history[k].op = "convert_dataset"
            /\ history[k].args = history[k].before.value.unit_system)
           => history[k].ret = history[k].before
        /\ (history[k].op = "convert_dataset_convention"
            /\ history[k].args = history[k].before.value.sign_convention)
           => history[k].ret = history[k].before

(* a CGS dataset converted to CGS, then to its own sign convention *)
C8_Witness ==
    /\ Len(history) = 2
    /\ history[1].op = "convert_dataset"
    /\ history[1].args = "CGS"
    /\ history[1].before.value.unit_system = "CGS"
    /\ history[2].op = "convert_dataset_convention"
    /\ history[2].args = history[2].before.value.sign_convention

(* C9: a conversion never modifies its input Dataset (a stored dataset is   *)
(* unchanged by any number of read/plot conversions); the returned Dataset  *)
(* has a changed unit_system / sign_convention tag if and only if it is a   *)
(* new Dataset, with an array of its own, that carries the target tag and   *)
(* the data converted to it.                                                *)
C9_CopyOnWrite ==
    \A k \in 1..Len(history) :
        /\ Deref(objs, arrs, history[k].before.ref) = history[k].before.value
        /\ history[k].op = "convert_dataset" =>
              IF history[k].ret.value.unit_system # history[k].before.value.unit_system
              THEN /\ history[k].ret.ref # history[k].before.ref
                   /\ objs[history[k].ret.ref].data # objs[history[k].before.ref].data
                   /\ history[k].ret.value.unit_system = history[k].args
                   /\ history[k].ret.value.data =
                          ConvertedUnits(history[k].before.value,
                                         ConversionArrays(history[k].before.value.unit_types,
                                                          history[k].before.value.unit_system,
                                                          history[k].args))
              ELSE history[k].ret = history[k].before
        /\ history[k].op = "convert_dataset_convention" =>
              IF history[k].ret.value.sign_convention # history[k].before.value.sign_convention
              THEN /\ history[k].ret.ref # history[k].before.ref
                   /\ objs[history[k].ret.ref].data # objs[history[k].before.ref].data
                   /\ history[k].ret.value.sign_convention = history[k].args
                   /\ history[k].ret.value.data =
                          SignLoop(history[k].before.value.channels, history[k].before.value.data,
                                   1, history[k].before.value.sign_convention, history[k].args)
              ELSE history[k].ret = history[k].before
        /\ history[k].op = "prepare_dataset" =>
              /\ history[k].before.ref = datasets[1].v
              /\ history[k].ret.value.unit_system = history[k].args.unit_system
                    <=> history[k].ret.value.unit_system # history[k].before.value.unit_system
                        \/ history[k].before.value.unit_system = history[k].args.unit_system

(* a unit conversion of the stored dataset that scaled data in place on the *)
(* copy, then a plot of the stored dataset that converted it again          *)
C9_Witness ==
    /\ Len(history) = 2
    /\ history[1].op = "convert_dataset"
    /\ history[1].before.ref = datasets[1].v
    /\ history[1].ret.value.data # history[1].before.value.data
    /\ history[2].op = "prepare_dataset"
    /\ history[2].ret.value.data.rows # <<>>
    /\ history[2].ret.value.unit_system # history[2].before.value.unit_system
    /\ history[2].ret.value.sign_convention # history[2].before.value.sign_convention

(* C15: when the requested unit system or sign convention, or the          *)
(* dataset's own unit_system or sign_convention, is not a supported name,   *)
(* convert_dataset, convert_dataset_convention and                          *)
(* convert_channel_convention return their input with data and tags         *)
(* unchanged and do not raise; a dataset whose sign_convention is           *)
(* unsupported is not re-signed or re-tagged.                               *)
C15_UnknownNamesAreNoOps ==
    \A k \in 1..Len(history) :
        /\ ~history[k].raised
        /\ (/\ history[k].op = "convert_dataset"
            /\ \/ ~Contains(Systems, history[k].args)
               \/ ~Contains(Systems, history[k].before.value.unit_system))
           => history[k].ret = history[k].before
        /\ (/\ history[k].op = "convert_dataset_convention"
            /\ \/ ~Contains(SUPPORTED_CONVENTIONS, history[k].args)
               \/ ~Contains(SUPPORTED_CONVENTIONS, history[k].before.value.sign_convention))
           => history[k].ret = history[k].before
        /\ (/\ history[k].op = "convert_channel_convention"
            /\ \/ ~Contains(SUPPORTED_CONVENTIONS, history[k].args.current_convention)
               \/ ~Contains(SUPPORTED_CONVENTIONS, history[k].args.target_convention))
           => /\ history[k].ret.array.same
              /\ history[k].ret.array.data = history[k].before.value.data

(* the call history[k] converted between two different unit systems *)
UnitsConverted(k) ==
    /\ history[k].op = "convert_dataset"
    /\ history[k].ret.ref # history[k].before.ref

(* the samples of call k's input after the factor/offset arithmetic, before *)
(* any rounding                                                             *)
Unrounded(k) ==
    ConvertedData(history[k].before.value.data,
                  ConversionArrays(history[k].before.value.unit_types,
                                   history[k].before.value.unit_system, history[k].args),
                  AnyOffset(ConversionArrays(history[k].before.value.unit_types,
                                             history[k].before.value.unit_system,
                                             history[k].args))).rows

(* C16: in the Dataset a unit conversion between two different systems      *)
(* returns, every sample of every channel whose name contains Cmd is an     *)
(* integer, the converted value rounded to the nearest one, and no other    *)
(* channel is rounded.                                                      *)
C16_CmdChannelsIntegral ==
    \A k \in 1..Len(history) :
        UnitsConverted(k) =>
            \A i \in 1..Len(history[k].ret.value.data.rows) :
                \A j \in 1..Len(history[k].ret.value.channels) :
                    IF history[k].ret.value.channels[j] \in CmdLike
                    THEN /\ history[k].ret.value.data.rows[i][j] % Scale = 0
                         /\ 2 * Abs(history[k].ret.value.data.rows[i][j] - Unrounded(k)[i][j])
                               <= Scale
                    ELSE history[k].ret.value.data.rows[i][j] = Unrounded(k)[i][j]

(* USCS data taken to Metric: CmdP 8 psi is 55.16 kPa and is stored as 55,  *)
(* P 9 psi is stored as 62.05 kPa                                           *)
C16_Witness ==
    /\ Len(history) = 1
    /\ UnitsConverted(1)
    /\ history[1].before.value.unit_system = "USCS"
    /\ history[1].args = "Metric"
    /\ history[1].ret.value.channels[5] = "CmdP"
    /\ Unrounded(1)[1][5] % Scale # 0
    /\ history[1].ret.value.data.rows[1][5] = 55 * Scale
    /\ history[1].ret.value.data.rows[1][2] % Scale # 0

(* C17: a channel whose name is absent from the channel-to-type table keeps *)
(* its column's values and its unit string exactly through a unit           *)
(* conversion between any two systems.                                      *)
C17_NonConvertiblePassThrough ==
    \A k \in 1..Len(history) :
        UnitsConverted(k) =>
            \A j \in 1..Len(history[k].before.value.channels) :
                history[k].before.value.channels[j] \notin DOMAIN CHANNEL_TO_TYPE =>
                    /\ history[k].ret.value.units[j] = history[k].before.value.units[j]
                    /\ \A i \in 1..Len(history[k].before.value.data.rows) :
                          history[k].ret.value.data.rows[i][j]
                              = history[k].before.value.data.rows[i][j]

(* the sample v, cast to an integer, is a member of allowed *)
CastsInto(v, allowed) ==
    \E n \in allowed :
        \/ v >= 0 /\ n * Scale <= v /\ v < (n + 1) * Scale
        \/ v < 0 /\ (n - 1) * Scale < v /\ v <= n * Scale

(* positions of the rows of c whose sample in channel casts into allowed *)
KeptRows(c, channel, allowed) ==
    {i \in 1..Len(c.before.value.data.rows) :
        CastsInto(c.before.value.data.rows[i][Index(c.before.value.channels, channel)], allowed)}

(* C14: parse_dataset(D, c, allowed) on a D that has channel c returns a    *)
(* new Dataset whose rows are exactly the rows of D whose sample in c, cast *)
(* to integer, is in allowed, in their order, with every column, channel,   *)
(* unit and tag as in D, and D keeps its rows; without channel c it returns *)
(* D itself; it never raises.                                               *)
C14_ParseIsCopyOnWriteFilter ==
    \A k \in 1..Len(history) :
        history[k].op = "parse_dataset" =>
            /\ ~history[k].raised
            /\ Deref(objs, arrs, history[k].before.ref) = history[k].before.value
            /\ IF Contains(history[k].before.value.channels, history[k].args.channel)
               THEN /\ history[k].ret.ref # history[k].before.ref
                    /\ objs[history[k].ret.ref].data # objs[history[k].before.ref].data
                    /\ [history[k].ret.value EXCEPT !.data = 0]
                          = [history[k].before.value EXCEPT !.data = 0]
                    /\ history[k].ret.value.data.ndim = 2
                    /\ history[k].ret.value.data.ncols = history[k].before.value.data.ncols
                    /\ Len(history[k].ret.value.data.rows)
                          = Cardinality(KeptRows(history[k], history[k].args.channel,
                                                 history[k].args.condition))
                    /\ \A j \in 1..Len(history[k].ret.value.data.rows) :
                          \E i \in KeptRows(history[k], history[k].args.channel,
                                            history[k].args.condition) :
                              /\ Cardinality({h \in KeptRows(history[k], history[k].args.channel,
                                                              history[k].args.condition) : h < i})
                                    = j - 1
                              /\ history[k].ret.value.data.rows[j]
                                    = history[k].before.value.data.rows[i]
               ELSE history[k].ret = history[k].before

(* Metric data parsed on the pressure channel: 62.05 kPa casts to 62 and    *)
(* its row is kept, the other row is dropped                                *)
C14_Witness ==
    /\ Len(history) = 2
    /\ history[1].op = "convert_dataset"
    /\ history[1].args = "Metric"
    /\ history[2].op = "parse_dataset"
    /\ history[2].args.channel = "P"
    /\ Len(history[2].before.value.data.rows) = 2
    /\ Len(history[2].ret.value.data.rows) = 1
    /\ history[2].ret.value.data.rows[1][2] % Scale # 0

-----------------------------------------------------------------------------
(* two samples agree to a tenth of a unit; two whole numbers that do are    *)
(* equal                                                                    *)
Near(x, y) == 10 * Abs(x - y) <= Scale

(* two arrays of one shape whose samples agree *)
SameData(a, b) ==
    /\ a.ndim = b.ndim
    /\ a.ncols = b.ncols
    /\ NRows(a) = NRows(b)
    /\ \A i \in 1..NRows(a) : \A j \in 1..a.ncols : Near(a.rows[i][j], b.rows[i][j])

(* history[k] and history[k + 1] are convert_dataset(D, Y) and              *)
(* convert_dataset(<its result>, X) for D in unit system X, X and Y         *)
(* supported                                                                *)
UnitRoundTrip(k) ==
    /\ history[k].op = "convert_dataset"
    /\ history[k + 1].op = "convert_dataset"
    /\ Contains(Systems, history[k].before.value.unit_system)
    /\ Contains(Systems, history[k].args)
    /\ history[k + 1].before.ref = history[k].ret.ref
    /\ history[k + 1].args = history[k].before.value.unit_system

(* C21: for every dataset D in unit system X and every supported system Y,  *)
(* convert_dataset(convert_dataset(D, Y), X) reproduces the data of D in    *)
(* every column, the rounded command channels included, and has             *)
(* unit_system X.                                                           *)
C21_UnitRoundTrip ==
    \A k \in 1..(Len(history) - 1) :
        UnitRoundTrip(k)
        => /\ SameData(history[k + 1].ret.value.data, history[k].before.value.data)
           /\ history[k + 1].ret.value.unit_system = history[k].before.value.unit_system

-----------------------------------------------------------------------------
(* channels the sign law is checked on: those of the table and some that    *)
(* are not in it                                                            *)
SignChannels == DOMAIN SIGN_DEFINITIONS \cup {"V", "P", "RST", "ET", "NFX"}

(* table[c][B] / table[c][A] for a channel of the table: the q with         *)
(* q * table[c][A] = table[c][B]                                            *)
TableRatio(c, A, B) ==
    CHOOSE q \in {-1, 1} : q * SIGN_DEFINITIONS[c][A] = SIGN_DEFINITIONS[c][B]

(* the multiplier the table gives a channel, +1 for a channel not in it *)
TableMultiplier(c, A, B) == IF c \in DOMAIN SIGN_DEFINITIONS THEN TableRatio(c, A, B) ELSE 1

(* get_multiplier on every channel and all supported conventions *)
SignLawOnTable ==
    \A c \in SignChannels : \A A, B \in Range(SUPPORTED_CONVENTIONS) :
        /\ get_multiplier(c, A, B) \in {-1, 1}
        /\ c \in DOMAIN SIGN_DEFINITIONS => get_multiplier(c, A, B) = TableRatio(c, A, B)
        /\ c \notin DOMAIN SIGN_DEFINITIONS => get_multiplier(c, A, B) = 1
        /\ \A C \in Range(SUPPORTED_CONVENTIONS) :
              get_multiplier(c, A, B) * get_multiplier(c, B, C) = get_multiplier(c, A, C)

(* every sample of result is the sample of data times the multiplier of its *)
(* channel                                                                  *)
MultipliedBy(channels, data, result, A, B) ==
    /\ result.ndim = data.ndim
    /\ result.ncols = data.ncols
    /\ NRows(result) = NRows(data)
    /\ \A i \in 1..NRows(data) : \A j \in 1..data.ncols :
          result.rows[i][j] = data.rows[i][j] * TableMultiplier(channels[j], A, B)

(* C23: for every channel c and supported conventions A, B,                 *)
(* get_multiplier(c, A, B) is table[c][B] / table[c][A], is +1 or -1, is +1 *)
(* for a channel absent from the table, and                                 *)
(* get_multiplier(c, A, B) * get_multiplier(c, B, C) = get_multiplier(c, A, *)
(* C); converting from A to B multiplies every sample of a column by that   *)
(* multiplier.                                                              *)
C23_SignMultiplierLaw ==
    /\ SignLawOnTable
    /\ \A k \in 1..Len(history) :
          /\ (/\ history[k].op = "convert_dataset_convention"
              /\ validate_convention(history[k].before.value.sign_convention)
              /\ validate_convention(history[k].args))
             => MultipliedBy(history[k].before.value.channels, history[k].before.value.data,
                             history[k].ret.value.data,
                             history[k].before.value.sign_convention, history[k].args)
          /\ (/\ history[k].op = "convert_channel_convention"
              /\ validate_convention(history[k].args.current_convention)
              /\ validate_convention(history[k].args.target_convention))
             => MultipliedBy(history[k].before.value.channels, history[k].before.value.data,
                             history[k].ret.array.data,
                             history[k].args.current_convention,
                             history[k].args.target_convention)

(* ISO data with FZ = 148 converted to SAE: FZ becomes -148, SA and CmdSA   *)
(* change sign, the temperature channel RST (absent from the table) and SL  *)
(* are unchanged                                                            *)
C23_Witness ==
    /\ Len(history) = 1
    /\ history[1].op = "convert_dataset_convention"
    /\ history[1].before.value.sign_convention = "ISO"
    /\ history[1].args = "SAE"
    /\ history[1].before.value.channels[1] = "FZ"
    /\ history[1].before.value.data.rows[1][1] = 148 * Scale
    /\ history[1].ret.value.data.rows[1][1] = -148 * Scale
    /\ history[1].before.value.channels[3] = "RST"
    /\ history[1].ret.value.data.rows[1][3] = history[1].before.value.data.rows[1][3]
    /\ history[1].ret.value.data.rows[1][3] # 0

-----------------------------------------------------------------------------
(* the four fields the two orders of conversion are compared on *)
Converted(ds) ==
    [data |-> ds.data, units |-> ds.units, unit_system |-> ds.unit_system,
     sign_convention |-> ds.sign_convention]

(* convert_dataset_convention(convert_dataset(D, U), C) for the dataset D   *)
(* at ref                                                                   *)
SignsOf(units, C) ==
    convert_dataset_convention(Heap(units.objs, units.arrs), units.ret, C)

UnitsThenSigns(H, ref, U, C) ==
    Deref(SignsOf(convert_dataset(H, ref, U), C).objs,
          SignsOf(convert_dataset(H, ref, U), C).arrs,
          SignsOf(convert_dataset(H, ref, U), C).ret)

(* convert_dataset(convert_dataset_convention(D, C), U) *)
UnitsOf(signs, U) == convert_dataset(Heap(signs.objs, signs.arrs), signs.ret, U)

SignsThenUnits(H, ref, U, C) ==
    Deref(UnitsOf(convert_dataset_convention(H, ref, C), U).objs,
          UnitsOf(convert_dataset_convention(H, ref, C), U).arrs,
          UnitsOf(convert_dataset_convention(H, ref, C), U).ret)

(* C29: for every dataset D, supported unit system U and supported          *)
(* convention C, converting units to U and then signs to C yields the same  *)
(* data, units, unit_system and sign_convention as converting signs to C    *)
(* and then units to U, the rounded Cmd columns included.                   *)
C29_UnitsAndSignsCommute ==
    \A k \in 1..(Len(history) - 1) :
        /\ (/\ history[k].op = "convert_dataset"
            /\ history[k + 1].op = "convert_dataset_convention"
            /\ history[k + 1].before.ref = history[k].ret.ref
            /\ Contains(Systems, history[k].args)
            /\ validate_convention(history[k + 1].args))
           => Converted(history[k + 1].ret.value)
                 = Converted(SignsThenUnits(Heap(objs, arrs), history[k].before.ref,
                                            history[k].args, history[k + 1].args))
        /\ (/\ history[k].op = "convert_dataset_convention"
            /\ history[k + 1].op = "convert_dataset"
            /\ history[k + 1].before.ref = history[k].ret.ref
            /\ validate_convention(history[k].args)
            /\ Contains(Systems, history[k + 1].args))
           => Converted(history[k + 1].ret.value)
                 = Converted(UnitsThenSigns(Heap(objs, arrs), history[k].before.ref,
                                            history[k + 1].args, history[k].args))

(* USCS data in ISO with FZ, SA, a temperature channel, CmdFZ and CmdSA     *)
(* taken to Metric and then to SAE: CmdFZ is converted from lb to N,        *)
(* rounded and negated                                                      *)
C29_Witness ==
    /\ Len(history) = 2
    /\ history[1].op = "convert_dataset"
    /\ history[1].args = "Metric"
    /\ history[1].before.value.unit_system = "USCS"
    /\ history[2].op = "convert_dataset_convention"
    /\ history[2].args = "SAE"
    /\ history[1].before.value.sign_convention = "ISO"
    /\ history[1].before.value.channels[5] = "CmdFZ"
    /\ history[1].ret.value.data.rows[1][5] # history[1].before.value.data.rows[1][5]
    /\ history[2].ret.value.data.rows[1][5] = -history[1].ret.value.data.rows[1][5]
    /\ history[2].ret.value.data.rows[1][5] # 0
    /\ history[2].ret.value.data.rows[1][1] % Scale # 0

-----------------------------------------------------------------------------
(* the two systems CMD_TARGETS has a list for *)
TargetSystems == {"USCS", "Metric"}

(* the to-SI factor of the unit type of channel c in a system, as num/den *)
TargetFactor(c, system) == UNIT_DEFS[CHANNEL_TO_TYPE[CmdName(c)]][system]

(* m is the integer nearest to u * factor(A) / factor(B), and no other      *)
(* integer is as near                                                       *)
RoundsTo(u, m, fA, fB) ==
    2 * Abs(u * fA.num * fB.den - m * fA.den * fB.num) < fA.den * fB.num

(* the i-th target of A, converted to B and rounded, is the i-th target of  *)
(* B, for every channel of the table and every index                        *)
TargetsAgree(A, B) ==
    \A c \in DOMAIN CMD_TARGETS :
        /\ Len(CMD_TARGETS[c][A]) = Len(CMD_TARGETS[c][B])
        /\ \A i \in 1..Len(CMD_TARGETS[c][A]) :
              RoundsTo(CMD_TARGETS[c][A][i], CMD_TARGETS[c][B][i],
                       TargetFactor(c, A), TargetFactor(c, B))

TargetsAgreeBothWays == TargetsAgree("USCS", "Metric") /\ TargetsAgree("Metric", "USCS")

(* the columns of a dataset that are a command channel of the table *)
TargetColumns(ds, c) == {j \in 1..Len(ds.channels) : ds.channels[j] = CmdName(c)}

(* a sample that is the i-th target of A, in either sign, has become the    *)
(* i-th target of B in that sign                                            *)
MovedToTargets(before, after, A, B) ==
    \A c \in DOMAIN CMD_TARGETS : \A j \in TargetColumns(before, c) :
        \A r \in 1..NRows(before.data) : \A i \in 1..Len(CMD_TARGETS[c][A]) :
            \A s \in {-1, 1} :
                before.data.rows[r][j] = s * CMD_TARGETS[c][A][i] * Scale
                => after.data.rows[r][j] = s * CMD_TARGETS[c][B][i] * Scale

(* a sample that is a target of A, in either sign, is what it was *)
TargetsKept(before, after, A) ==
    \A c \in DOMAIN CMD_TARGETS : \A j \in TargetColumns(before, c) :
        \A r \in 1..NRows(before.data) :
            (\E i \in 1..Len(CMD_TARGETS[c][A]) :
                Abs(before.data.rows[r][j]) = Abs(CMD_TARGETS[c][A][i]) * Scale)
            => after.data.rows[r][j] = before.data.rows[r][j]

(* history[k] is a convert_dataset call between USCS and Metric *)
BetweenTargetSystems(k) ==
    /\ history[k].op = "convert_dataset"
    /\ history[k].before.value.unit_system \in TargetSystems
    /\ history[k].args \in TargetSystems
    /\ history[k].args # history[k].before.value.unit_system

(* C30: for each of V, P, FZ, IA, SA and each index i, the i-th USCS target *)
(* converted to Metric with the unit type's factor and rounded to the       *)
(* nearest integer is the i-th Metric target, and the other way round;      *)
(* hence a unit conversion between the two systems takes the command        *)
(* samples that are targets of the one to the targets of the other at the   *)
(* same index, and there and back again leaves them unchanged.              *)
C30_TargetTablesAgree ==
    /\ TargetsAgreeBothWays
    /\ \A k \in 1..Len(history) :
          BetweenTargetSystems(k)
          => MovedToTargets(history[k].before.value, history[k].ret.value,
                            history[k].before.value.unit_system, history[k].args)
    /\ \A k \in 1..(Len(history) - 1) :
          (BetweenTargetSystems(k) /\ UnitRoundTrip(k))
          => TargetsKept(history[k].before.value, history[k + 1].ret.value,
                         history[k].before.value.unit_system)

(* CmdV = 15 mph and CmdP = 10 psi taken to 24 kph and 69 kPa and back *)
C30_Witness ==
    /\ Len(history) = 2
    /\ BetweenTargetSystems(1)
    /\ UnitRoundTrip(1)
    /\ history[1].before.value.unit_system = "USCS"
    /\ \E j \in TargetColumns(history[1].before.value, "V") :
          /\ history[1].before.value.data.rows[1][j] = 15 * Scale
          /\ history[1].ret.value.data.rows[1][j] = 24 * Scale
          /\ history[2].ret.value.data.rows[1][j] = 15 * Scale
    /\ \E j \in TargetColumns(history[1].before.value, "P") :
          /\ history[1].before.value.data.rows[2][j] = 10 * Scale
          /\ history[1].ret.value.data.rows[2][j] = 69 * Scale
          /\ history[2].ret.value.data.rows[2][j] = 10 * Scale

-----------------------------------------------------------------------------
(* The importer driven directly on the files of WideFiles: every            *)
(* combination of extension, defect of the file, header rows, numeric       *)
(* block and header fields.                                                 *)

Headers ==
    {[channels |-> <<"FZ", "SA">>, units |-> <<"N", "deg">>],
     [channels |-> <<"FZ", "SL">>, units |-> <<"lb", "-">>],
     [channels |-> <<"SL", "V">>, units |-> <<"-", "kph">>],
     [channels |-> <<"V">>, units |-> <<"mph">>],
     [channels |-> <<"MZ", "SL">>, units |-> <<"ft-lb", "-">>],
     [channels |-> <<"FZ", "SA">>, units |-> <<"N">>]}

RowBlocks ==
    {<<>>,
     << <<-640 * Scale, 3 * Scale>> >>,
     << <<-640 * Scale, 3 * Scale>>, <<-1500 * Scale, -1 * Scale>> >>,
     << <<12 * Scale>>, <<27 * Scale>> >>,
     << <<12 * Scale>> >>,
     << <<-640 * Scale, 3 * Scale>>, <<-1500 * Scale>> >>,
     << <<-640 * Scale, 3 * Scale, 1 * Scale>>, <<-1500 * Scale, -1 * Scale, 2 * Scale>> >>}

(* missing: no such file; short: fewer than three lines; corrupt: a numeric *)
(* block that cannot be parsed                                              *)
Defects == {"none", "missing", "short", "corrupt"}

RimTexts == {Rim("absent", 0), Rim("number", (15 * Scale) \div 2), Rim("text", 0)}

HeaderFields ==
    {[unit_system |-> <<>>, sign |-> <<>>, tire |-> <<>>, notes |-> <<>>],
     [unit_system |-> <<"Metric">>, sign |-> <<"ISO">>, tire |-> <<"Slick">>, notes |-> <<"wet">>],
     [unit_system |-> <<"SI">>, sign |-> <<"Custom">>, tire |-> <<"Slick">>, notes |-> <<>>]}

WideFiles ==
    {File(<<"run">>, ext, defect # "missing", IF defect = "short" THEN 2 ELSE 3,
          fields.tire, rim, fields.unit_system, fields.sign, fields.notes,
          header.channels, header.units, rows, defect = "corrupt") :
        ext \in {".dat", ".mat", ".csv"}, defect \in Defects, header \in Headers,
        rows \in RowBlocks, rim \in RimTexts, fields \in HeaderFields}

Init ==
    /\ objs = << >>
    /\ arrs = << >>
    /\ datasets = << >>
    /\ import_counter = 0
    /\ history = << >>
    /\ conversion_cache = << >>

(* the importer returned got for file *)
ImportStep(op, file, got) ==
    /\ history = << >>
    /\ history' = <<Call(op, file, <<>>, got, FALSE)>>
    /\ UNCHANGED <<objs, arrs, datasets, import_counter, conversion_cache>>

ImportFile ==
    \E file \in WideFiles :
        ImportStep("import_file", file, import_file(file, <<"run">>, _get_next_color(0), DemoBase))

ImportMat ==
    \E file \in WideFiles :
        ImportStep("import_mat", file, import_mat(file, <<"run">>, _get_next_color(0), DemoBase))

ImportDat ==
    \E file \in WideFiles :
        ImportStep("import_dat", file, import_dat(file, <<"run">>, _get_next_color(0), DemoBase))

NextImport ==
    \/ ImportFile
    \/ ImportMat
    \/ ImportDat

SpecImport == Init /\ [][NextImport]_vars

ImportOps == {"import_file", "import_mat", "import_dat"}

(* a step of the parse of file raises: the file cannot be opened or read as *)
(* the format, the numeric block cannot be loaded, the rim width is no      *)
(* number, or the Dataset constructor finds the lengths misaligned          *)
ParseRaises(op, file) ==
    \/ ~file.exists
    \/ file.corrupt
    \/ op # "import_mat" /\ file.ext # ".mat" /\ file.lines < 3
    \/ op = "import_mat" /\ file.ext # ".mat"
    \/ op = "import_dat" /\ file.ext = ".mat"
    \/ op # "import_mat" /\ file.ext # ".mat" /\ file.rim.kind = "text"
    \/ \E i, j \in 1..Len(file.rows) : Len(file.rows[i]) # Len(file.rows[j])
    \/ Len(file.channels) # Len(file.units)

(* a Dataset with every field set from the call and the file *)
FullyPopulated(ds, file) ==
    /\ Aligned(ds)
    /\ ds.path = <<file.stem, file.ext>>
    /\ ds.name = <<"run">>
    /\ ds.demo_name = DemoBase
    /\ ds.node_color = _get_next_color(0)
    /\ ds.unit_types = map_channels_to_types(ds.channels)
    /\ ds.unit_system # ""
    /\ ds.sign_convention # ""
    /\ ds.tire_id = (IF file.tire # <<>> THEN file.tire[1] ELSE "")

(* C4: import_file, import_mat and import_dat never raise: they return a    *)
(* fully populated Dataset or None, whatever the file (missing, unsupported *)
(* extension, malformed header or data, mismatched counts); a step of the   *)
(* parse that raises, the Dataset constructor's validation included, gives  *)
(* None.                                                                    *)
C4_ImporterNeverRaises ==
    (history # <<>> /\ Last.op \in ImportOps) =>
        /\ ~Last.raised
        /\ IF Last.ret.ok THEN FullyPopulated(Last.ret.ds, Last.args) ELSE Last.ret = None_
        /\ ParseRaises(Last.op, Last.args) => ~Last.ret.ok
        /\ (Last.op = "import_file" /\ Last.args.ext \notin {".mat", ".dat", ".txt"})
              => ~Last.ret.ok

(* a text file whose units row is shorter than its channels row: the        *)
(* Dataset constructor raises inside import_dat                             *)
C4_Witness ==
    /\ history # <<>>
    /\ Last.op = "import_dat"
    /\ Last.args.exists /\ ~Last.args.corrupt /\ Last.args.lines = 3
    /\ Last.args.ext = ".dat"
    /\ Last.args.rim.kind # "text"
    /\ Len(Last.args.channels) = 2 /\ Len(Last.args.units) = 1
    /\ Len(Last.args.rows) = 2 /\ Len(Last.args.rows[1]) = 2 /\ Len(Last.args.rows[2]) = 2
    /\ ~Last.ret.ok

(* what the importer op returns for file *)
ImportOf(op, file) ==
    IF op = "import_file" THEN import_file(file, <<"run">>, _get_next_color(0), DemoBase)
    ELSE IF op = "import_mat" THEN import_mat(file, <<"run">>, _get_next_color(0), DemoBase)
    ELSE import_dat(file, <<"run">>, _get_next_color(0), DemoBase)

(* file with none of its optional metadata fields *)
WithoutMetadata(file) ==
    [file EXCEPT !.tire = <<>>, !.rim = Rim("absent", 0), !.unit_system = <<>>,
                 !.sign = <<>>, !.notes = <<>>]

(* C18: every metadata field is optional on its own; an absent or           *)
(* unparsable field gets its default and the import still returns a         *)
(* Dataset: rim_width 0 when it cannot be parsed as a number,               *)
(* sign_convention SAE, tire_id and notes the empty string, unit_system     *)
(* USCS when a unit string contains lb and Metric otherwise.                *)
C18_MetadataNeverFailsImport ==
    (history # <<>> /\ Last.op \in ImportOps) =>
        /\ ImportOf(Last.op, WithoutMetadata(Last.args)).ok => Last.ret.ok
        /\ Last.ret.ok =>
              /\ Last.args.rim.kind # "number" => Last.ret.ds.rim_width = 0
              /\ Last.args.sign = <<>> => Last.ret.ds.sign_convention = "SAE"
              /\ Last.args.tire = <<>> => Last.ret.ds.tire_id = ""
              /\ Last.args.notes = <<>> => Last.ret.ds.notes = ""
              /\ Last.args.unit_system = <<>> =>
                    Last.ret.ds.unit_system
                        = (IF \E i \in 1..Len(Last.args.units) : Last.args.units[i] \in LbLike
                           THEN "USCS" ELSE "Metric")

CmdNames == {CmdName(CmdSources[i]) : i \in 1..Len(CmdSources)}

(* C5: a successfully imported Dataset has the channel SL exactly once; a   *)
(* file without SL gets it appended after its own channels and before any   *)
(* generated Cmd channel, with unit '-' and a column of zeros; for a file    *)
(* with SL nothing is appended for it.                                      *)
C5_RequiredChannel ==
    (history # <<>> /\ Last.op \in ImportOps /\ Last.ret.ok) =>
        /\ Count(Last.ret.ds.channels, "SL") = 1
        /\ \A i \in 1..Len(Last.ret.ds.channels) :
              i > Len(Last.args.channels) =>
                 \/ Last.ret.ds.channels[i] \in CmdNames
                 \/ /\ i = Len(Last.args.channels) + 1
                    /\ ~Contains(Last.args.channels, "SL")
        /\ SubSeq(Last.ret.ds.channels, 1, Len(Last.args.channels)) = Last.args.channels
        /\ ~Contains(Last.args.channels, "SL") =>
              /\ Last.ret.ds.channels[Len(Last.args.channels) + 1] = "SL"
              /\ Last.ret.ds.units[Len(Last.args.channels) + 1] = "-"
              /\ \A r \in 1..NRows(Last.ret.ds.data) :
                    Last.ret.ds.data.rows[r][Len(Last.args.channels) + 1] = 0

(* a file without SL, with two rows, for which command channels were        *)
(* generated after the appended SL                                          *)
C5_Witness ==
    /\ history # <<>>
    /\ Last.op \in ImportOps
    /\ Last.ret.ok
    /\ ~Contains(Last.args.channels, "SL")
    /\ NRows(Last.ret.ds.data) = 2
    /\ Len(Last.ret.ds.channels) > Len(Last.args.channels) + 1

-----------------------------------------------------------------------------
(* create_cmd_channels driven directly: on an input of CmdInputs, then on   *)
(* its own output.                                                          *)

CmdChannelLists ==
    {<<"V", "P", "FZ", "IA", "SA">>,
     <<"FZ", "SA">>,
     <<"FZ", "SA", "CmdFZ">>,
     <<"SA", "CmdV", "CmdP", "CmdFZ", "CmdIA", "CmdSA">>,
     <<"FX", "SL">>,
     <<"CmdSA", "IA", "V">>}

SampleRows ==
    << <<10 * Scale, -9 * Scale, 148 * Scale, -3 * Scale, 2 * Scale, 5 * Scale>>,
       <<16 * Scale, 11 * Scale, -250 * Scale, 1 * Scale, -4 * Scale, 0>> >>

(* the unit string of a channel in a unit system *)
UnitOf(channel, unit_system) ==
    IF channel \in DOMAIN CHANNEL_TO_TYPE /\ Contains(Systems, unit_system)
    THEN UNIT_DEFS[CHANNEL_TO_TYPE[channel]][unit_system].unit
    ELSE "-"

(* none: aligned 2-D data; flat: 1-D data; narrow: one column too few;      *)
(* units: one unit string too few                                           *)
CmdDefects == {"none", "flat", "narrow", "units"}

CmdData(n, nrows, defect) ==
    IF defect = "flat" THEN Vector(SubSeq(SampleRows[1], 1, n))
    ELSE IF defect = "narrow"
    THEN Matrix(n - 1, [r \in 1..nrows |-> SubSeq(SampleRows[r], 1, n - 1)])
    ELSE Matrix(n, [r \in 1..nrows |-> SubSeq(SampleRows[r], 1, n)])

CmdInput(channels, nrows, defect, unit_system, sign_convention) ==
    [channels |-> channels,
     units |-> [i \in 1..(IF defect = "units" THEN Len(channels) - 1 ELSE Len(channels)) |->
                   UnitOf(channels[i], unit_system)],
     data |-> CmdData(Len(channels), nrows, defect),
     unit_system |-> unit_system, sign_convention |-> sign_convention]

CmdInputs ==
    {CmdInput(channels, nrows, defect, unit_system, sign_convention) :
        channels \in CmdChannelLists, nrows \in 0..Len(SampleRows), defect \in CmdDefects,
        unit_system \in {"USCS", "Metric", "SI"},
        sign_convention \in {"SAE", "ISO", "Adapted ISO", "Custom"}}

(* the call create_cmd_channels(input) returned r *)
CmdStep(input, r) ==
    /\ history' = Append(history, Call("create_cmd_channels", input,
                                       [channels |-> input.channels, units |-> input.units,
                                        data |-> input.data],
                                       [channels |-> r.channels, units |-> r.units,
                                        data |-> r.data, same |-> r.same], r.raised))
    /\ UNCHANGED <<objs, arrs, datasets, import_counter, conversion_cache>>

CreateCmdChannels ==
    \E input \in CmdInputs :
        /\ history = << >>
        /\ CmdStep(input, create_cmd_channels(input.channels, input.units, input.data,
                                              input.unit_system, input.sign_convention))

(* the output of the previous call given back, with the same two tags *)
Reapplied(c) ==
    [channels |-> c.ret.channels, units |-> c.ret.units, data |-> c.ret.data,
     unit_system |-> c.args.unit_system, sign_convention |-> c.args.sign_convention]

CmdAgain(input) ==
    CmdStep(input, create_cmd_channels(input.channels, input.units, input.data,
                                       input.unit_system, input.sign_convention))

CreateCmdChannelsAgain ==
    /\ history # << >>
    /\ Len(history) < MaxCalls
    /\ Last.op = "create_cmd_channels"
    /\ ~Last.raised
    /\ CmdAgain(Reapplied(Last))

NextCmd ==
    \/ CreateCmdChannels
    \/ CreateCmdChannelsAgain

SpecCmd == Init /\ [][NextCmd]_vars

(* C7: create_cmd_channels applied to its own output gives the channels,    *)
(* units and data of the first application; no Cmd* name appears twice,     *)
(* also with only some source channels or only some Cmd channels present;   *)
(* with all five Cmd channels present the input triple is returned          *)
(* unchanged.                                                               *)
C7_CmdIdempotence ==
    \A k \in 1..Len(history) :
        (history[k].op = "create_cmd_channels" /\ ~history[k].raised) =>
            /\ k > 1 =>
                  /\ history[k].ret.channels = history[k - 1].ret.channels
                  /\ history[k].ret.units = history[k - 1].ret.units
                  /\ history[k].ret.data = history[k - 1].ret.data
            /\ \A c \in CmdNames : Count(history[k].ret.channels, c) <= 1
            /\ (\A c \in CmdNames : Contains(history[k].before.channels, c)) =>
                  /\ history[k].ret.same
                  /\ history[k].ret.channels = history[k].before.channels
                  /\ history[k].ret.units = history[k].before.units
                  /\ history[k].ret.data = history[k].before.data

(* the sources X whose channel is in channels and whose Cmd<X> is not *)
MissingCmdSources(channels) ==
    SelectSeq(CmdSources,
              LAMBDA X : Contains(channels, X) /\ ~Contains(channels, CmdName(X)))

(* aligned 2-D input in a unit system the generator has targets for *)
CmdInputValid(c) ==
    /\ Len(c.args.channels) = Len(c.args.units)
    /\ c.args.data.ndim = 2
    /\ c.args.data.ncols = Len(c.args.channels)
    /\ c.args.unit_system \in {"USCS", "Metric"}

(* the sources whose samples are discretized as they are *)
UnfilteredSources == {"V", "P", "IA", "SA"}

(* the factor that takes a sample of channel c from convention C to SAE *)
ToSae(c, C) == IF c \in DOMAIN SIGN_DEFINITIONS THEN TableRatio(c, C, "SAE") ELSE 1

(* g is a target, no target is closer to v than g, and the targets before g *)
(* in the list are farther from v                                           *)
NearestLowestIndex(v, g, targets) ==
    \E n \in 1..Len(targets) :
        /\ g = targets[n] * Scale
        /\ \A m \in 1..Len(targets) : Abs(v - targets[m] * Scale) >= Abs(v - g)
        /\ \A m \in 1..(n - 1) : Abs(v - targets[m] * Scale) > Abs(v - g)

(* the call generated Cmd<X> from the source X *)
Generates(c, X) ==
    /\ c.op = "create_cmd_channels"
    /\ ~c.raised
    /\ CmdInputValid(c)
    /\ validate_convention(c.args.sign_convention)
    /\ Contains(MissingCmdSources(c.args.channels), X)

(* C24: for every unfiltered source channel (V, P, IA, SA), unit system of  *)
(* USCS and Metric and sample value v in SAE space, the generated command   *)
(* sample is a member of the channel's target list for that unit system, no *)
(* other target is strictly closer to v, and of two equally close targets   *)
(* the one with the lower index in the list is chosen.                      *)
C24_NearestTargetLowestIndex ==
    \A k \in 1..Len(history) : \A X \in UnfilteredSources :
        Generates(history[k], X) =>
            \A i \in 1..NRows(history[k].args.data) :
                NearestLowestIndex(
                    history[k].args.data.rows[i][Index(history[k].args.channels, X)]
                        * ToSae(X, history[k].args.sign_convention),
                    history[k].ret.data.rows[i][Index(history[k].ret.channels, CmdName(X))]
                        * ToSae(CmdName(X), history[k].args.sign_convention),
                    CMD_TARGETS[X][history[k].args.unit_system])

(* USCS data with V = 10 and 16, both given 15, P = 11 between the targets  *)
(* 10 and 12 and given 10, and in ISO SA = 2 (-2 in SAE) between -1 and -3  *)
(* and given -1 (1 in ISO)                                                  *)
C24_Witness ==
    /\ Len(history) = 1
    /\ Generates(history[1], "V")
    /\ history[1].args.channels = <<"V", "P", "FZ", "IA", "SA">>
    /\ history[1].args.unit_system = "USCS"
    /\ history[1].args.sign_convention = "ISO"
    /\ history[1].args.data.rows = << <<10 * Scale, -9 * Scale, 148 * Scale, -3 * Scale, 2 * Scale>>,
                                      <<16 * Scale, 11 * Scale, -250 * Scale, 1 * Scale, -4 * Scale>> >>
    /\ history[1].ret.channels[6] = "CmdV"
    /\ history[1].ret.data.rows[1][6] = 15 * Scale
    /\ history[1].ret.data.rows[2][6] = 15 * Scale
    /\ history[1].ret.channels[7] = "CmdP"
    /\ history[1].ret.data.rows[2][7] = 10 * Scale
    /\ history[1].ret.channels[10] = "CmdSA"
    /\ history[1].ret.data.rows[1][10] = 1 * Scale

(* the factor that takes a sample of channel c from SAE to convention C *)
FromSae(c, C) == IF c \in DOMAIN SIGN_DEFINITIONS THEN TableRatio(c, "SAE", C) ELSE 1

(* the data of c taken to SAE, column by column *)
DataInSae(channels, data, C) ==
    [data EXCEPT !.rows =
        [i \in 1..NRows(data) |->
            [j \in 1..data.ncols |-> data.rows[i][j] * ToSae(channels[j], C)]]]

(* data of the SAE convention taken to C, column by column *)
DataFromSae(channels, data, C) ==
    [data EXCEPT !.rows =
        [i \in 1..NRows(data) |->
            [j \in 1..data.ncols |-> data.rows[i][j] * FromSae(channels[j], C)]]]

(* a call with a valid input in a supported convention *)
GeneratesInConvention(c) ==
    /\ c.op = "create_cmd_channels"
    /\ ~c.raised
    /\ CmdInputValid(c)
    /\ validate_convention(c.args.sign_convention)

(* what generation on the SAE image of the call's input returns *)
GeneratedOnSae(c) ==
    create_cmd_channels(c.args.channels, c.args.units,
                        DataInSae(c.args.channels, c.args.data, c.args.sign_convention),
                        c.args.unit_system, "SAE")

C19_CmdNeverRaises ==
    \A k \in 1..Len(history) :
        history[k].op = "create_cmd_channels" =>
            /\ ~history[k].raised
            /\ IF CmdInputValid(history[k])
               THEN /\ history[k].ret.channels
                          = history[k].args.channels
                              \o [i \in 1..Len(MissingCmdSources(history[k].args.channels)) |->
                                     CmdName(MissingCmdSources(history[k].args.channels)[i])]
                    /\ history[k].ret.units
                          = history[k].args.units
                              \o [i \in 1..Len(MissingCmdSources(history[k].args.channels)) |->
                                     history[k].args.units[
                                         Index(history[k].args.channels,
                                               MissingCmdSources(history[k].args.channels)[i])]]
                    /\ history[k].ret.data.ndim = 2
                    /\ history[k].ret.data.ncols = Len(history[k].ret.channels)
                    /\ Len(history[k].ret.data.rows) = Len(history[k].args.data.rows)
                    /\ \A i \in 1..Len(history[k].ret.data.rows) :
                          /\ Len(history[k].ret.data.rows[i]) = Len(history[k].ret.channels)
                          /\ SubSeq(history[k].ret.data.rows[i], 1, Len(history[k].args.channels))
                                = history[k].args.data.rows[i]
               ELSE /\ history[k].ret.channels = history[k].args.channels
                    /\ history[k].ret.units = history[k].args.units
                    /\ history[k].ret.data = history[k].args.data

(* ISO data with FZ, SA and a CmdFZ of its own: CmdSA is generated by the   *)
(* first application, and the second is given the four columns              *)
C7_Witness ==
    /\ Len(history) = 2
    /\ history[1].before.channels = <<"FZ", "SA", "CmdFZ">>
    /\ history[1].args.sign_convention = "ISO"
    /\ NRows(history[1].before.data) = 2
    /\ history[1].ret.channels = <<"FZ", "SA", "CmdFZ", "CmdSA">>
    /\ history[2].before.channels = <<"FZ", "SA", "CmdFZ", "CmdSA">>
    /\ ~history[2].raised

-----------------------------------------------------------------------------
(* The controller's state machine: the user imports batches of files of     *)
(* FileSystem, edits a dataset's metadata (real or demo view) and removes   *)
(* a dataset.  A Dataset object no longer stored in the manager is gone.    *)

LiveObjs(o, d) == [id \in {d[i].v : i \in 1..Len(d)} \ {None} |-> o[id]]

LiveArrs(o, a, d) == [id \in {o[d[i].v].data : i \in {j \in 1..Len(d) : d[j].v # None}} |-> a[id]]

Batches == UNION {[1..n -> Paths] : n \in 1..MaxBatch}

UpdateNames == {<<"runA">>, <<"runB">>}

DemoNames == {DemoBase, Suffixed(DemoBase, 1)}

(* what the edit dialog sends: every field, with the name typed *)
Updates(names) ==
    {[name |-> n, tire_id |-> "Edited", rim_width |-> 8, notes |-> "edited",
      node_color |-> ColorwayLen] : n \in names}

(* names the user may address: the stored ones and one that is not *)
Addressable == Range(Keys(datasets)) \cup {<<"ghost">>}

(* import_data(file_paths) left the controller in S *)
ImportDataStep(file_paths, S) ==
    /\ objs' = S.objs
    /\ arrs' = S.arrs
    /\ datasets' = S.datasets
    /\ import_counter' = S.import_counter
    /\ history' = <<Call("import_data", file_paths, datasets,
                         IF S.raised THEN <<>> ELSE S.imported_names, S.raised)>>
    /\ UNCHANGED conversion_cache

ImportData ==
    \E file_paths \in Batches :
        /\ Len(datasets) + Len(file_paths) <= MaxDatasets
        /\ import_counter + Len(file_paths) <= MaxImports
        /\ ImportDataStep(file_paths,
                          import_data(objs, arrs, datasets, import_counter, file_paths))

RemoveDatasetStep(name, r) ==
    /\ datasets' = r.datasets
    /\ objs' = LiveObjs(objs, r.datasets)
    /\ arrs' = LiveArrs(objs, arrs, r.datasets)
    /\ history' = <<Call("remove_dataset", name, datasets, r.ret, FALSE)>>
    /\ UNCHANGED <<import_counter, conversion_cache>>

RemoveDataset ==
    \E name \in Addressable :
        RemoveDatasetStep(name, controller_remove_dataset(datasets, name))

UpdateDatasetInfoStep(dataset_name, updates, is_demo, r) ==
    /\ datasets' = r.datasets
    /\ objs' = LiveObjs(r.objs, r.datasets)
    /\ arrs' = LiveArrs(r.objs, arrs, r.datasets)
    /\ history' = <<Call("update_dataset_info",
                         <<dataset_name, updates.name, is_demo>>, datasets, r.ret, FALSE)>>
    /\ UNCHANGED <<import_counter, conversion_cache>>

UpdateDatasetInfo ==
    \/ \E dataset_name \in Addressable, updates \in Updates(UpdateNames) :
          UpdateDatasetInfoStep(dataset_name, updates, FALSE,
              update_dataset_info(objs, datasets, dataset_name, updates, FALSE))
    \/ \E dataset_name \in DemoNames, updates \in Updates(DemoNames) :
          UpdateDatasetInfoStep(dataset_name, updates, TRUE,
              update_dataset_info(objs, datasets, dataset_name, updates, TRUE))

Next ==
    \/ ImportData
    \/ RemoveDataset
    \/ UpdateDatasetInfo

Spec == Init /\ [][Next]_vars

(* the importer returns a Dataset for the file at path *)
Importable(path) ==
    /\ path # EmptyPath
    /\ import_file(FileSystem[path], FileSystem[path].stem, _get_next_color(0), DemoBase).ok

(* C3: import_data skips a file whose import gives no dataset (no entry in  *)
(* the manager, its name not in the returned list), does not raise, and     *)
(* imports every other importable file of the batch and of later batches;   *)
(* every value stored in the manager is a Dataset, never None.              *)
C3_BatchImportSkipsFailed ==
    /\ \A i \in 1..Len(datasets) : datasets[i].v # None
    /\ (history # <<>> /\ Last.op = "import_data") =>
          /\ ~Last.raised
          /\ Len(Last.ret) = Cardinality({i \in 1..Len(Last.args) : Importable(Last.args[i])})
          /\ Len(datasets) = Len(Last.before) + Len(Last.ret)

(* the real metadata of a Dataset *)
RealPart(ds) ==
    [name |-> ds.name, tire_id |-> ds.tire_id, rim_width |-> ds.rim_width, notes |-> ds.notes]

(* the demo metadata of a Dataset *)
DemoPart(ds) ==
    [demo_name |-> ds.demo_name, demo_tire_id |-> ds.demo_tire_id,
     demo_rim_width |-> ds.demo_rim_width, demo_notes |-> ds.demo_notes]

(* this step is a call of update_dataset_info with the given is_demo *)
UpdateInfoCalled(is_demo) ==
    /\ history' # <<>>
    /\ history'[1].op = "update_dataset_info"
    /\ history'[1].args[3] = is_demo

-----------------------------------------------------------------------------
(* UnitSystemConverter.convert_value driven directly: a value of            *)
(* ValueInputs is converted, and then either the result of the last call    *)
(* or the first value again, each from the system it is in.                 *)

ValueInputs == {32 * Scale, -40 * Scale, 12500}

(* the unit types of the table and one that is not in it *)
ValueTypes == DOMAIN UNIT_DEFS \cup {"-"}

InitValue ==
    /\ objs = << >>
    /\ arrs = << >>
    /\ datasets = << >>
    /\ import_counter = 0
    /\ history = << >>
    /\ conversion_cache = << >>

ValueArgs(value, unit_type, from_system, to_system) ==
    [value |-> value, unit_type |-> unit_type, from_system |-> from_system,
     to_system |-> to_system]

(* the call convert_value(args) returned r.ret and left the cache r.cache *)
ValueStep(args, r) ==
    /\ history' = Append(history, Call("convert_value", args, conversion_cache, r.ret, FALSE))
    /\ conversion_cache' = r.cache
    /\ UNCHANGED <<objs, arrs, datasets, import_counter>>

ConvertValue ==
    \/ \E value \in ValueInputs, unit_type \in ValueTypes,
          from_system \in Range(Systems), to_system \in Range(Systems) :
          /\ history = << >>
          /\ ValueStep(ValueArgs(value, unit_type, from_system, to_system),
                       convert_value(conversion_cache, value, unit_type, from_system, to_system))
    \/ \E to_system \in Range(Systems) :
          /\ history # << >>
          /\ Len(history) < MaxValueCalls
          /\ ValueStep(ValueArgs(Last.ret, history[1].args.unit_type, Last.args.to_system,
                                 to_system),
                       convert_value(conversion_cache, Last.ret, history[1].args.unit_type,
                                     Last.args.to_system, to_system))
    \/ \E to_system \in Range(Systems) :
          /\ history # << >>
          /\ Len(history) < MaxValueCalls
          /\ ValueStep(ValueArgs(history[1].args.value, history[1].args.unit_type,
                                 history[1].args.from_system, to_system),
                       convert_value(conversion_cache, history[1].args.value,
                                     history[1].args.unit_type, history[1].args.from_system,
                                     to_system))

NextValue == ConvertValue

SpecValue == InitValue /\ [][NextValue]_vars

(* one unit of from_system in units of to_system, by the two factors *)
UnitIn(unit_type, from_system, to_system) ==
    MulDiv(MulDiv(Scale, UNIT_DEFS[unit_type][from_system].num,
                  UNIT_DEFS[unit_type][from_system].den),
           UNIT_DEFS[unit_type][to_system].den, UNIT_DEFS[unit_type][to_system].num)

(* The tolerance of a value in to_system that came through via_system: the  *)
(* samples and the SI intermediates of the three conversions are held to    *)
(* 1/Scale, so two steps of SI and one of via_system, expressed in          *)
(* to_system, and three steps of to_system                                  *)
Resolution(unit_type, via_system, to_system) ==
    3 + (2 * UnitIn(unit_type, "SI", to_system) + UnitIn(unit_type, via_system, to_system)
         + Scale - 1) \div Scale

(* two values of to_system agree up to that tolerance *)
Close(x, y, unit_type, via_system, to_system) ==
    Abs(x - y) <= Resolution(unit_type, via_system, to_system)

(* calls i, j, k are convert_value(v, T, X, Y), convert_value(<its result>, *)
(* T, Y, Z) and convert_value(v, T, X, Z) for a unit type T of the table    *)
Triangle(i, j, k) ==
    /\ history[i].args.unit_type \in DOMAIN UNIT_DEFS
    /\ history[j].args.unit_type = history[i].args.unit_type
    /\ history[k].args.unit_type = history[i].args.unit_type
    /\ history[j].args.value = history[i].ret
    /\ history[j].args.from_system = history[i].args.to_system
    /\ history[k].args.value = history[i].args.value
    /\ history[k].args.from_system = history[i].args.from_system
    /\ history[k].args.to_system = history[j].args.to_system

(* C22: for every value v, unit type T of the table and systems X, Y, Z,    *)
(* convert_value(convert_value(v, T, X, Y), T, Y, Z) equals                 *)
(* convert_value(v, T, X, Z) up to tolerance, temperature with its          *)
(* per-direction offsets included (32 in USCS is about 273.15 in SI); and   *)
(* the result of convert_value is the same whether or not an earlier call   *)
(* had initialised the factor cache.                                        *)
C22_TriangleConsistency ==
    /\ \A i, j, k \in 1..Len(history) :
          Triangle(i, j, k)
          => Close(history[j].ret, history[k].ret, history[i].args.unit_type,
                   history[i].args.to_system, history[j].args.to_system)
    /\ \A i \in 1..Len(history) :
          history[i].args = ValueArgs(32 * Scale, "temperature", "USCS", "SI")
          => Abs(history[i].ret - 273150) <= 10
    /\ \A i, j \in 1..Len(history) :
          history[i].args = history[j].args => history[i].ret = history[j].ret

(* 32 deg F taken to kelvin on an empty cache, the result taken to deg C,   *)
(* then 32 deg F taken to deg C directly on the filled cache                *)
C22_Witness ==
    /\ Len(history) = 3
    /\ Triangle(1, 2, 3)
    /\ history[1].args = ValueArgs(32 * Scale, "temperature", "USCS", "SI")
    /\ history[2].args.to_system = "Metric"
    /\ DOMAIN history[1].before = {}
    /\ DOMAIN history[3].before # {}
    /\ history[2].ret # history[1].ret
    /\ Abs(history[3].ret) <= 10

-----------------------------------------------------------------------------
(* C26: after any sequence of import_data, update_dataset_info (is_demo     *)
(* False or True) and remove_dataset calls, every key k of the DataManager  *)
(* maps to a Dataset whose name field equals k, and no two keys map to the  *)
(* same Dataset object.                                                     *)
C26_KeyEqualsName ==
    /\ \A i \in 1..Len(datasets) :
          /\ datasets[i].v \in DOMAIN objs
          /\ objs[datasets[i].v].name = datasets[i].k
    /\ \A i, j \in 1..Len(datasets) : datasets[i].v = datasets[j].v => i = j

(* the positions of the stored datasets whose demo_name is demo *)
WithDemoName(demo) ==
    {i \in 1..Len(datasets) : datasets[i].v # None /\ objs[datasets[i].v].demo_name = demo}

(* position i holds the first stored dataset whose demo_name is demo *)
FirstWithDemoName(i, demo) ==
    /\ i \in WithDemoName(demo)
    /\ \A j \in WithDemoName(demo) : i <= j

(* C27: update_dataset_info(d, updates, is_demo=True) changes the demo      *)
(* fields of one dataset only, the first one whose demo_name is d, and      *)
(* leaves the demo_name of every other dataset unchanged, also when several *)
(* datasets share the demo name d.                                          *)
C27_DemoUpdateTouchesOne ==
    [][UpdateInfoCalled(TRUE) =>
          /\ datasets' = datasets
          /\ \A i \in 1..Len(datasets) :
                datasets[i].v # None =>
                    /\ datasets[i].v \in DOMAIN objs'
                    /\ ~FirstWithDemoName(i, history'[1].args[1])
                       => DemoPart(objs'[datasets[i].v]) = DemoPart(objs[datasets[i].v])
                    /\ (FirstWithDemoName(i, history'[1].args[1]) /\ history'[1].ret)
                       => objs'[datasets[i].v].demo_name = history'[1].args[2]]_vars

(* this step is a call of import_data *)
ImportDataCalled ==
    /\ history' # <<>>
    /\ history'[1].op = "import_data"

(* the paths of a batch that get a name: not "", and of a supported type *)
NamedPaths(file_paths) ==
    SelectSeq(file_paths,
              LAMBDA p : p # EmptyPath /\ FileSystem[p].ext \in {".mat", ".dat", ".txt"})

(* stem when it is free, else stem (n) with the smallest free n >= 1 *)
SmallestFreeName(stem, taken) ==
    IF stem \notin taken THEN stem
    ELSE Suffixed(stem, CHOOSE n \in 1..(Cardinality(taken) + 1) :
                            /\ Suffixed(stem, n) \notin taken
                            /\ \A m \in 1..(n - 1) : Suffixed(stem, m) \in taken)

(* the demo names stored before the step, and those of the first n entries  *)
(* the step added                                                           *)
DemoNamesBefore(n) ==
    {objs[datasets[i].v].demo_name : i \in {j \in 1..Len(datasets) : datasets[j].v # None}}
    \cup {objs'[datasets'[Len(datasets) + m].v].demo_name :
            m \in {j \in 1..(n - 1) : datasets'[Len(datasets) + j].v # None}}

(* C28: each name import_data adds is absent from the DataManager           *)
(* immediately before it is added (the stem, or the stem with ' (n)' for    *)
(* the smallest free n >= 1), so the number of stored datasets grows by the *)
(* length of the returned name list, the returned names are pairwise        *)
(* distinct and no previously stored dataset is replaced; the generated     *)
(* demo name is different from every demo name stored at that moment.       *)
C28_ImportsNeverOverwrite ==
    [][ImportDataCalled =>
          /\ Len(datasets') >= Len(datasets)
          /\ SubSeq(datasets', 1, Len(datasets)) = datasets
          /\ \A id \in DOMAIN objs : id \in DOMAIN objs' /\ objs'[id] = objs[id]
          /\ \A id \in DOMAIN arrs : id \in DOMAIN arrs' /\ arrs'[id] = arrs[id]
          /\ NoDuplicates(Keys(datasets'))
          /\ ~history'[1].raised =>
                /\ Len(datasets') = Len(datasets) + Len(history'[1].ret)
                /\ Len(history'[1].ret) = Len(NamedPaths(history'[1].args))
                /\ NoDuplicates(history'[1].ret)
                /\ \A n \in 1..Len(history'[1].ret) :
                      /\ ~HasKey(datasets, history'[1].ret[n])
                      /\ datasets'[Len(datasets) + n].k = history'[1].ret[n]
                      /\ history'[1].ret[n]
                            = SmallestFreeName(
                                  FileSystem[NamedPaths(history'[1].args)[n]].stem,
                                  Range(Keys(datasets))
                                    \cup {history'[1].ret[m] : m \in 1..(n - 1)})
                      /\ datasets'[Len(datasets) + n].v # None
                         => objs'[datasets'[Len(datasets) + n].v].demo_name
                               \notin DemoNamesBefore(n)]_vars

(* runA.dat and runA.mat imported in one batch next to nothing, or one of   *)
(* them next to a stored runA: the second name is runA (1) and the second   *)
(* demo name Demo data (1)                                                  *)
C28_Witness ==
    /\ history # <<>>
    /\ Last.op = "import_data"
    /\ ~Last.raised
    /\ Last.ret # <<>>
    /\ Last.ret[Len(Last.ret)] = Suffixed(<<"runA">>, 1)
    /\ Len(datasets) = 2
    /\ datasets[1].k = <<"runA">>
    /\ datasets[2].k = Suffixed(<<"runA">>, 1)
    /\ datasets[1].v # None /\ datasets[2].v # None
    /\ objs[datasets[1].v].demo_name = DemoBase
    /\ objs[datasets[2].v].demo_name = Suffixed(DemoBase, 1)

====
